---------------------------- MODULE Spec2Model ----------------------------
(***************************************************************************)
(* Verification model of TameParse.                                        *)
(*                                                                         *)
(*   - the run-time LR parser (src/Lr/parser.h): process, perform,         *)
(*     can_reduce, fake_reduce, check_guard;                               *)
(*   - the accept-action order of the lexer stage                          *)
(*     (src/TameParse/Compiler/lexer_stage.cpp);                           *)
(*   - the symbol range set (src/Dfa/symbol_set.cpp);                      *)
(*   - the symbol map and its deduplication                                *)
(*     (src/Test/dfa_symbol_deduplicate.cpp);                              *)
(*   - the language compiler (src/Compiler/language_compiler.cpp);         *)
(*   - the driver (src/parsetool/main.cpp);                                *)
(*   - the passes of the lexer stage and its {name} expressions            *)
(*     (src/TameParse/Compiler/lexer_stage.cpp);                           *)
(*   - the order of LR actions (src/Lr/lr_action.h);                       *)
(*   - the state machine and its row types (src/Dfa/state_machine.h).      *)
(*                                                                         *)
(* Each part has its own specification (SpecParser, SpecAccept,            *)
(* SpecSymbols, SpecDedupe, SpecLanguage, SpecDriver, SpecLexerStage,      *)
(* SpecExpression, SpecLrAction, SpecMachine); the variables of the other  *)
(* parts stay at their initial values.                                     *)
(***************************************************************************)
EXTENDS Integers, Sequences, FiniteSets, TLC

VARIABLES
    \* ---- parser (src/Lr/parser.h, class parser::state) ----
    tbl,            \* which parser tables the parser was created with
    input,          \* the lexer's symbol stream (terminal ids)
    m_Stack,        \* parser stack: sequence of states, top is the last
    m_LookaheadPos, \* position in the lookahead
    pResult,        \* what the last process() returned; "hung" if it never did
    pExec,          \* index (in the action row) of the action process() performed, 0 if none
    pGuard,         \* what check_guard returned when a guard action was performed
    prevStack,      \* m_Stack before the last operation
    prevPos,        \* m_LookaheadPos before the last operation
    lastOp,         \* the last operation called on the parser
    crSym,          \* argument of the last public can_reduce call
    crResult,       \* outcome of the last public can_reduce call
    \* ---- accept actions (src/TameParse/Compiler/lexer_stage.cpp) ----
    aMode,          \* what is applied: "compare" (operator<) or "compile" (the highest pick)
    aDone,          \* whether it has been applied
    cmpA, cmpB, cmpC, \* three accept actions
    cmpRes,         \* the results of operator< on them, and of operator== on the first two
    acceptActions,  \* the accept-action list of a DFA state
    highest,        \* the action picked for the state (a one-element set; {} if none)
    clashes,        \* map<int, set<int>> clashes, as a set of (key, member) pairs
    unusedTerminals, \* set<int> unusedTerminals
    \* ---- symbol set (src/Dfa/symbol_set.cpp) ----
    m_Symbols,      \* the stored ranges, in the order of the set (by lower bound)
    prevSymbols,    \* m_Symbols before the last operation
    symOp,          \* the last operation
    symArg,         \* the range it was called with
    \* ---- symbol map (src/Test/dfa_symbol_deduplicate.cpp) ----
    has_duplicates, \* the symbol map: its ranges, the identifier of a range is its index
    no_duplicates,  \* the deduplicated map: (range, old identifiers), the new identifier is the index
    ddDone,         \* whether deduplicate has been called
    \* ---- language compiler (src/Compiler/language_compiler.cpp) ----
    m_Language,     \* the language block being compiled: its lexer and grammar blocks
    compiler,       \* the members of language_compiler and the console it reports to
    lcDone,         \* whether compile() has run
    \* ---- driver (src/parsetool/main.cpp, main) ----
    options,        \* the command line options and what the input file holds
    mainPc,         \* the stage main() runs next; "done" once it has returned
    stagesRun,      \* the stages whose compile() has been called, in order
    cons,           \* the console: the diagnostics reported and its exit code
    returned,       \* what main() returned; NotReturned while it runs
    \* ---- lexer stage (src/TameParse/Compiler/lexer_stage.cpp, compile) ----
    lexInput,       \* what compile() works on: the language's data and the options
    lexerStage,     \* compile()'s position, its automata and what it reported
    \* ---- {name} expressions (lexer_stage.cpp, ndfa_lexer_compiler) ----
    m_Data,         \* the lexer items m_Data->get_expressions gives for the name
    builder,        \* the regex builder: its case options, scopes and what was added
    exprResult,     \* what compile_expression returned; "none" before the call
    \* ---- LR actions (src/Lr/lr_action.h) ----
    lrA, lrB, lrC,  \* three LR actions
    lrRes,          \* the results of operator< on them
    lrDone,         \* whether operator< has been applied
    \* ---- state machine (src/Dfa/state_machine.h) ----
    dfa,            \* the DFA a state machine is built from: the transitions of each state
    runArgs,        \* the state and the symbol run() was called with
    runResult       \* what run() returned with flat rows and with compact rows

pvars == <<tbl, input, m_Stack, m_LookaheadPos, pResult, pExec, pGuard,
           prevStack, prevPos, lastOp, crSym, crResult>>

avars == <<aMode, aDone, cmpA, cmpB, cmpC, cmpRes, acceptActions, highest,
           clashes, unusedTerminals>>

svars == <<m_Symbols, prevSymbols, symOp, symArg>>

dvars == <<has_duplicates, no_duplicates, ddDone>>

lvars == <<m_Language, compiler, lcDone>>

mvars == <<options, mainPc, stagesRun, cons, returned>>

\* the parts modelled first, and the others
basevars == <<pvars, avars, svars, dvars, lvars>>

xvars == <<lexInput, lexerStage>>

evars == <<m_Data, builder, exprResult>>

rvars == <<lrA, lrB, lrC, lrRes, lrDone>>

tvars == <<dfa, runArgs, runResult>>

ovars == <<mvars, xvars, evars, rvars, tvars>>

\* all but the driver, all but the lexer stage, all but the expressions,
\* all but the LR actions, all but the state machine
driverRest == <<basevars, xvars, evars, rvars, tvars>>

lexerRest == <<basevars, mvars, evars, rvars, tvars>>

exprRest == <<basevars, mvars, xvars, rvars, tvars>>

lrRest == <<basevars, mvars, xvars, evars, tvars>>

machineRest == <<basevars, mvars, xvars, evars, rvars>>

vars == <<basevars, ovars>>

-----------------------------------------------------------------------------
(* Bounds *)

\* longest symbol stream fed to the parser
MaxInputLen == 3

\* number of loop iterations / nested calls after which a simulation
\* (can_reduce, check_guard) is taken not to return
MaxSim == 12

-----------------------------------------------------------------------------
(* Generic helpers *)

Min(S) == CHOOSE x \in S : \A y \in S : x <= y

Top(s) == s[Len(s)]

Pop(s) == SubSeq(s, 1, Len(s) - 1)

SeqsUpTo(S, n) == UNION {[1..k -> S] : k \in 0..n}

-----------------------------------------------------------------------------
(* Parser tables.  An action is (symbol id, type, next state or rule id).   *)
(* Each state has a row of terminal actions and a row of nonterminal        *)
(* actions, both sorted by symbol id.  End-of-input and end-of-guard are    *)
(* nonterminal ids.                                                         *)

Act(s, ty, n) == [sym |-> s, type |-> ty, next |-> n]

\* Tables 1: S -> a A d | b B d | a B e | b A e ;  A -> c ;  B -> c
\* (LALR merges the two "c ." states, the reduce/reduce conflict is
\* resolved at run time by a weak reduce).
\* terminals a=0 b=1 c=2 d=3 e=4; nonterminals $=0 eog=1 S=2 A=3 B=4 S'=5
T1Term(s) ==
    CASE s = 0 -> <<Act(0, "shift", 1), Act(1, "shift", 2)>>
      [] s = 1 -> <<Act(2, "shift", 4)>>
      [] s = 2 -> <<Act(2, "shift", 4)>>
      [] s = 4 -> <<Act(2, "weakreduce", 4), Act(2, "reduce", 5),
                    Act(3, "weakreduce", 4), Act(3, "reduce", 5),
                    Act(4, "weakreduce", 4), Act(4, "reduce", 5)>>
      [] s = 5 -> <<Act(3, "shift", 9)>>
      [] s = 6 -> <<Act(4, "shift", 10)>>
      [] s = 7 -> <<Act(4, "shift", 11)>>
      [] s = 8 -> <<Act(3, "shift", 12)>>
      [] OTHER -> <<>>

T1Nonterm(s) ==
    CASE s = 0  -> <<Act(2, "goto", 3)>>
      [] s = 1  -> <<Act(3, "goto", 5), Act(4, "goto", 6)>>
      [] s = 2  -> <<Act(3, "goto", 7), Act(4, "goto", 8)>>
      [] s = 3  -> <<Act(0, "accept", 6)>>
      [] s = 9  -> <<Act(0, "weakreduce", 0)>>
      [] s = 10 -> <<Act(0, "reduce", 2)>>
      [] s = 11 -> <<Act(0, "reduce", 3)>>
      [] s = 12 -> <<Act(0, "reduce", 1)>>
      [] OTHER  -> <<>>

T1Rule(r) ==
    CASE r \in 0..3 -> [id |-> 2, len |-> 3]
      [] r = 4      -> [id |-> 3, len |-> 1]
      [] r = 5      -> [id |-> 4, len |-> 1]
      [] OTHER      -> [id |-> 5, len |-> 1]

\* Tables 2: S -> x | p q, with an ignored symbol w, a guard on p (guard
\* sub-parser states 6..8 recognising "p q"), a divert on q and a trailing
\* symbol z.
\* terminals x=0 w=1 p=2 q=3 z=4; nonterminals $=0 eog=1 S=2 X(guard)=3 S'=4
T2Term(s) ==
    CASE s = 0 -> <<Act(0, "shift", 1), Act(1, "ignore", 0),
                    Act(2, "guard", 6), Act(2, "shift", 2),
                    Act(3, "divert", 3)>>
      [] s = 1 -> <<Act(0, "weakreduce", 0), Act(3, "weakreduce", 0),
                    Act(4, "reduce", 0)>>
      [] s = 2 -> <<Act(1, "ignore", 0), Act(3, "shift", 4)>>
      [] s = 3 -> <<Act(3, "shift", 4)>>
      [] s = 5 -> <<Act(3, "divert", 3)>>
      [] s = 6 -> <<Act(2, "shift", 7)>>
      [] s = 7 -> <<Act(3, "shift", 8)>>
      [] OTHER -> <<>>

T2Nonterm(s) ==
    CASE s = 0 -> <<Act(2, "goto", 5)>>
      [] s = 1 -> <<Act(0, "reduce", 0)>>
      [] s = 4 -> <<Act(0, "reduce", 1)>>
      [] s = 5 -> <<Act(0, "accept", 3)>>
      [] s = 8 -> <<Act(1, "accept", 2)>>
      [] OTHER -> <<>>

T2Rule(r) ==
    CASE r = 0 -> [id |-> 2, len |-> 1]
      [] r = 1 -> [id |-> 2, len |-> 2]
      [] r = 2 -> [id |-> 3, len |-> 2]
      [] OTHER -> [id |-> 4, len |-> 1]

TableIds == {1, 2}

\* the terminal ids the lexer of each language can produce
Terminals(t) == 0..4

\* parser_tables::end_of_input, end_of_guard
end_of_input(t) == 0

end_of_guard(t) == 1

\* parser_tables::has_end_of_guard
has_end_of_guard(t, s) == t = 2 /\ s = 8

\* parser_tables::rule
rule(t, r) == IF t = 1 THEN T1Rule(r) ELSE T2Rule(r)

\* the row of terminal actions (isTerm) or nonterminal actions of a state
Row(t, isTerm, s) ==
    IF t = 1 THEN (IF isTerm THEN T1Term(s) ELSE T1Nonterm(s))
             ELSE (IF isTerm THEN T2Term(s) ELSE T2Nonterm(s))

\* the index of the first action of a row whose symbol id is >= sym, or one
\* past the end
FirstAtLeast(row, sym) ==
    LET ix == {i \in 1..Len(row) : row[i].sym >= sym}
    IN  IF ix = {} THEN Len(row) + 1 ELSE Min(ix)

\* parser_tables::find_terminal / find_nonterminal: binary search in the
\* row of a state, giving the first action for the symbol, or the place
\* where it would be
find_symbol(t, isTerm, s, sym) == FirstAtLeast(Row(t, isTerm, s), sym)

\* parser_tables::last_terminal_action / last_nonterminal_action: one past
\* the end of the row
last_symbol_action(t, isTerm, s) == Len(Row(t, isTerm, s)) + 1

\* parser_stack::operator[]: entry at an offset from the top (0 is the top,
\* -1 the entry below it); NoState when the offset leaves the stack
NoState == 0 - 1

StackAt(stack, pos) ==
    IF Len(stack) + pos >= 1 /\ pos <= 0 THEN stack[Len(stack) + pos] ELSE NoState

RECURSIVE GotoIn(_, _)
\* the loop looking for the goto action from index i of a nonterminal row:
\* the target of the first act_goto, NoState if there is none
GotoIn(row, i) ==
    IF i > Len(row) THEN NoState
    ELSE IF row[i].type = "goto" THEN row[i].next
    ELSE GotoIn(row, i + 1)

\* the goto loop of the reduce functions, started at find_nonterminal(s, nt)
GotoTarget(t, s, nt) == GotoIn(Row(t, FALSE, s), find_symbol(t, FALSE, s, nt))

-----------------------------------------------------------------------------
(* can_reduce: simulation of reductions on a scratch stack.                 *)
(* stackPos is an offset into the real stack, pushed the scratch states on  *)
(* top of it.  The outcome is "true" or "false" when the call returns,      *)
(* "diverges" when it is still looping after MaxSim turns, and "ub" when    *)
(* it reads past the end of an action row or of the stack.                  *)

RECURSIVE PopFake(_, _, _)
\* the pop loop of fake_reduce: scratch states first, then the real stack
PopFake(n, pos, pushed) ==
    IF n = 0 THEN [pos |-> pos, pushed |-> pushed]
    ELSE IF pushed # <<>> THEN PopFake(n - 1, pos, Pop(pushed))
    ELSE PopFake(n - 1, pos - 1, pushed)

\* the state a simulation is in
SimState(stack, pos, pushed) ==
    IF pushed # <<>> THEN Top(pushed) ELSE StackAt(stack, pos)

\* fake_reduce, last part: push the goto target g found in `state`
FakePush(p, state, g) ==
    [pos    |-> p.pos,
     pushed |-> IF g = NoState THEN p.pushed ELSE Append(p.pushed, g),
     bad    |-> state = NoState]

\* fake_reduce, after the pops p: work out the state and the goto action
FakeGoto(t, p, state, nt) == FakePush(p, state, GotoTarget(t, state, nt))

\* fake_reduce(act, stackPos, pushed), r being the rule of act
fake_reduce(t, stack, r, pos, pushed) ==
    FakeGoto(t, PopFake(r.len, pos, pushed),
             SimState(stack, PopFake(r.len, pos, pushed).pos,
                      PopFake(r.len, pos, pushed).pushed), r.id)

\* where the while loop of can_reduce stands: the state the call started
\* in, the row act points into and its index there, and the scratch stack
CrAt(state, actRow, act, pos, pushed) ==
    [ret |-> "loop", state |-> state, actRow |-> actRow, act |-> act,
     pos |-> pos, pushed |-> pushed]

CrRet(v) ==
    [ret |-> v, state |-> NoState, actRow |-> NoState, act |-> 0,
     pos |-> 0, pushed |-> <<>>]

RECURSIVE can_reduce(_, _, _, _, _, _, _)
RECURSIVE can_reduce_loop(_, _, _, _, _, _, _, _, _, _)

\* case act_weakreduce, f being the faked reduction: the nested can_reduce
CrWeakCall(t, stack, isTerm, symbol, f, fuel) ==
    IF f.bad THEN "ub"
    ELSE can_reduce(t, stack, isTerm, symbol, f.pos, f.pushed, fuel - 1)

\* case act_weakreduce, r being what the nested can_reduce returned
CrWeak(state, actRow, act, pos, pushed, r) ==
    IF r = "false" THEN CrAt(state, actRow, act + 1, pos, pushed) ELSE CrRet(r)

\* case act_reduce, f being the faked reduction and st the state it leads
\* to: act is fetched from the row of st, `state` stays what it was
CrReduceIn(t, isTerm, symbol, state, f, st) ==
    IF f.bad THEN CrRet("ub")
    ELSE CrAt(state, st, find_symbol(t, isTerm, st, symbol), f.pos, f.pushed)

CrReduce(t, stack, isTerm, symbol, state, f) ==
    CrReduceIn(t, isTerm, symbol, state, f, SimState(stack, f.pos, f.pushed))

\* the body of the while loop for the action a that act points to
CrAct(t, stack, isTerm, symbol, state, actRow, act, pos, pushed, a, fuel) ==
    IF a.sym # symbol THEN CrRet("false")
    ELSE CASE a.type \in {"shift", "accept"} -> CrRet("true")
           [] a.type = "divert" ->
                CrAt(state, actRow, act, pos, Append(pushed, a.next))
           [] a.type = "weakreduce" ->
                CrWeak(state, actRow, act, pos, pushed,
                       CrWeakCall(t, stack, isTerm, symbol,
                                  fake_reduce(t, stack, rule(t, a.next), pos, pushed),
                                  fuel))
           [] a.type = "reduce" ->
                CrReduce(t, stack, isTerm, symbol, state,
                         fake_reduce(t, stack, rule(t, a.next), pos, pushed))
           [] OTHER -> CrRet("false")

\* one turn of the while loop.  act is an index into row, the row of
\* actRow; the loop ends when act is last_symbol_action of `state`, and
\* reads past the end of the row when act has left another state's row.
CrTurn(t, stack, isTerm, symbol, state, actRow, act, pos, pushed, row, fuel) ==
    IF actRow = state /\ act = last_symbol_action(t, isTerm, state)
    THEN CrRet("false")
    ELSE IF act > Len(row) THEN CrRet("ub")
    ELSE CrAct(t, stack, isTerm, symbol, state, actRow, act, pos, pushed,
               row[act], fuel)

\* after a turn: return, or go round again
CrNext(t, stack, isTerm, symbol, turn, fuel) ==
    IF turn.ret # "loop" THEN turn.ret
    ELSE can_reduce_loop(t, stack, isTerm, symbol, turn.state, turn.actRow,
                         turn.act, turn.pos, turn.pushed, fuel - 1)

\* the while loop of can_reduce
can_reduce_loop(t, stack, isTerm, symbol, state, actRow, act, pos, pushed, fuel) ==
    IF fuel = 0 THEN "diverges"
    ELSE CrNext(t, stack, isTerm, symbol,
                CrTurn(t, stack, isTerm, symbol, state, actRow, act, pos, pushed,
                       Row(t, isTerm, actRow), fuel),
                fuel)

\* can_reduce, once the state on top of the simulated stack is known
CrStart(t, stack, isTerm, symbol, pos, pushed, state, fuel) ==
    IF state = NoState THEN "ub"
    ELSE can_reduce_loop(t, stack, isTerm, symbol, state, state,
                         find_symbol(t, isTerm, state, symbol), pos, pushed, fuel)

\* can_reduce<symbol_fetcher>(symbol, stackPos, pushed)
can_reduce(t, stack, isTerm, symbol, pos, pushed, fuel) ==
    IF fuel = 0 THEN "diverges"
    ELSE CrStart(t, stack, isTerm, symbol, pos, pushed,
                 SimState(stack, pos, pushed), fuel)

\* can_reduce(int terminalId) / can_reduce(lexeme)
can_reduce_terminal(t, stack, terminalId) ==
    can_reduce(t, stack, TRUE, terminalId, 0, <<>>, MaxSim)

\* can_reduce_nonterminal(int nt)
can_reduce_nonterminal(t, stack, nt) ==
    can_reduce(t, stack, FALSE, nt, 0, <<>>, MaxSim)

-----------------------------------------------------------------------------
(* Lookahead *)

\* state::look(offset): the lexeme at an offset from the lookahead
\* position; the end of the stream is the null lexeme (IsEoi)
IsEoi(inp, pos, offset) == pos + offset >= Len(inp)

Look(inp, pos, offset) == inp[pos + offset + 1]

\* the symbol looked up for the lexeme: its terminal id, or end-of-input
LookSym(t, inp, pos, offset) ==
    IF IsEoi(inp, pos, offset) THEN end_of_input(t) ELSE Look(inp, pos, offset)

-----------------------------------------------------------------------------
(* Reduce on a stack of states: standard_actions::reduce on the parser      *)
(* stack, guard_actions::reduce on the guard's stack.                       *)

\* push the target g of the goto action, if one was found
ReducePush(popped, g) ==
    [stack |-> IF g = NoState THEN popped ELSE Append(popped, g), bad |-> FALSE]

\* after the pops: the goto action of the state now on top.  Popping the
\* whole stack leaves no state to read.
ReduceGoto(t, popped, nt) ==
    IF popped = <<>> THEN [stack |-> <<>>, bad |-> TRUE]
    ELSE ReducePush(popped, GotoTarget(t, Top(popped), nt))

\* a pop loop that stops after one entry
ReducePopOne(stack, len) == Pop(stack)

\* the pop loop: rule.m_Length entries leave the stack
ReducePop(stack, len) ==
    IF len < Len(stack) THEN SubSeq(stack, 1, Len(stack) - len) ELSE <<>>

\* standard_actions::reduce(state, act, rule)
reduce(t, stack, r) == ReduceGoto(t, ReducePop(stack, r.len), r.id)

\* guard_actions::reduce(state, act, rule)
guard_reduce(t, gstack, r) == ReduceGoto(t, ReducePop(gstack, r.len), r.id)

-----------------------------------------------------------------------------
(* check_guard: the guard sub-parser, run on a stack of its own            *)
(* (guard_actions) over the lookahead from an offset.                       *)
(* The outcome is [st |-> "ret", sym |-> n] when it returns n (a guard      *)
(* symbol, or -1), and st "diverges" / "ub" as for can_reduce.              *)

GRet(n) == [st |-> "ret", sym |-> n]

GFail(why) == [st |-> why, sym |-> NoState]

\* where the for (;;) loop of check_guard stands after a turn
GAt(gstack, offset) ==
    [st |-> "loop", sym |-> NoState, gstack |-> gstack, offset |-> offset]

GEnd(r) == [st |-> r.st, sym |-> r.sym, gstack |-> <<>>, offset |-> 0]

RECURSIVE check_guard_loop(_, _, _, _, _, _, _, _)
RECURSIVE check_guard_scan(_, _, _, _, _, _, _, _, _, _)

\* check_guard(initialState, initialOffset)
check_guard(t, stack, inp, pos, initialState, initialOffset, fuel) ==
    check_guard_loop(t, stack, inp, pos, <<initialState>>, initialOffset, FALSE, fuel)

\* perform_generic with guard_actions, reduce case: g is the reduced stack
GsReduced(g, offset) == IF g.bad THEN GEnd(GFail("ub")) ELSE GAt(g.stack, offset)

\* perform_generic with guard_actions, guard case: g is what the nested
\* check_guard returned (-1 or a symbol: either way the lookahead moves on)
GsNested(g, gstack, offset) ==
    IF g.st # "ret" THEN GEnd(g) ELSE GAt(gstack, offset + 1)

\* perform_generic with guard_actions, and guardActions.next() when it
\* returns true
GsPerform(t, stack, inp, pos, gstack, offset, a, fuel) ==
    CASE a.type = "ignore" -> GAt(gstack, offset + 1)
      [] a.type = "shift" -> GAt(Append(gstack, a.next), offset + 1)
      [] a.type = "divert" -> GAt(Append(gstack, a.next), offset)
      [] a.type \in {"reduce", "weakreduce"} ->
           GsReduced(guard_reduce(t, gstack, rule(t, a.next)), offset)
      [] a.type = "goto" -> GAt(Append(Pop(gstack), a.next), offset)
      [] a.type = "guard" ->
           GsNested(check_guard(t, stack, inp, pos, a.next, 0, fuel - 1),
                    gstack, offset)
      [] OTHER -> GAt(gstack, offset)

\* the can_reduce test of a weak reduce candidate, made on the parser's
\* stack for the lexeme at the guard's offset
GsCanReduce(t, stack, inp, pos, offset, a) ==
    IF a.type # "weakreduce" THEN "true"
    ELSE IF ~IsEoi(inp, pos, offset)
    THEN can_reduce_terminal(t, stack, Look(inp, pos, offset))
    ELSE can_reduce_nonterminal(t, stack, end_of_input(t))

\* one candidate a (at index act), cr being the outcome of its can_reduce
\* test
GsAct(t, stack, inp, pos, gstack, offset, isTerm, sym, act, a, cr, fuel) ==
    IF cr \in {"diverges", "ub"} THEN GEnd(GFail(cr))
    ELSE IF cr = "false"
    THEN check_guard_scan(t, stack, inp, pos, gstack, offset, isTerm, sym,
                          act + 1, fuel)
    ELSE IF a.type = "accept" THEN GEnd(GRet(rule(t, a.next).id))
    ELSE GsPerform(t, stack, inp, pos, gstack, offset, a, fuel)

GsRow(t, stack, inp, pos, gstack, offset, isTerm, sym, act, row, fuel) ==
    IF act > Len(row) THEN GEnd(GRet(NoState))
    ELSE IF row[act].sym # sym THEN GEnd(GRet(NoState))
    ELSE GsAct(t, stack, inp, pos, gstack, offset, isTerm, sym, act, row[act],
               GsCanReduce(t, stack, inp, pos, offset, row[act]), fuel)

\* the loop over the candidate actions, from index act of the row: what the
\* turn of the outer loop ends in (a return, or the guard stack and offset
\* to go on with)
check_guard_scan(t, stack, inp, pos, gstack, offset, isTerm, sym, act, fuel) ==
    GsRow(t, stack, inp, pos, gstack, offset, isTerm, sym, act,
          Row(t, isTerm, Top(gstack)), fuel)

\* after a turn: return, or go round again
GlNext(t, stack, inp, pos, canReduceEog, turn, fuel) ==
    IF turn.st # "loop" THEN [st |-> turn.st, sym |-> turn.sym]
    ELSE check_guard_loop(t, stack, inp, pos, turn.gstack, turn.offset,
                          canReduceEog, fuel - 1)

\* the action search of a turn, for the symbol chosen
GlScan(t, stack, inp, pos, gstack, offset, canReduceEog, isTerm, sym, fuel) ==
    GlNext(t, stack, inp, pos, canReduceEog,
           check_guard_scan(t, stack, inp, pos, gstack, offset, isTerm, sym,
                            find_symbol(t, isTerm, Top(gstack), sym), fuel),
           fuel)

\* the choice of the symbol: the end-of-guard symbol in a state that has
\* one, else the lookahead; eogRes is what can_reduce_nonterminal returned
GlSym(t, stack, inp, pos, gstack, offset, canReduceEog, hasEog, eogRes, fuel) ==
    IF eogRes \in {"diverges", "ub"} THEN GFail(eogRes)
    ELSE GlScan(t, stack, inp, pos, gstack, offset,
                canReduceEog \/ eogRes = "true",
                ~hasEog /\ ~IsEoi(inp, pos, offset),
                IF hasEog THEN end_of_guard(t) ELSE LookSym(t, inp, pos, offset),
                fuel)

\* "Reduce the EOG symbol as soon as possible"
GlEog(t, stack, inp, pos, gstack, offset, canReduceEog, hasEog, fuel) ==
    GlSym(t, stack, inp, pos, gstack, offset, canReduceEog, hasEog,
          IF hasEog /\ ~canReduceEog
          THEN can_reduce_nonterminal(t, stack, end_of_guard(t)) ELSE "false",
          fuel)

\* one turn of the for (;;) loop of check_guard, and the turns after it
check_guard_loop(t, stack, inp, pos, gstack, offset, canReduceEog, fuel) ==
    IF fuel = 0 THEN GFail("diverges")
    ELSE IF gstack = <<>> THEN GFail("ub")
    ELSE GlEog(t, stack, inp, pos, gstack, offset, canReduceEog,
               has_end_of_guard(t, Top(gstack)), fuel)

-----------------------------------------------------------------------------
(* perform and process with the standard actions *)

\* a perform_generic that returns true whatever the action
PerformedAdvancing(stack, advance) ==
    [stack |-> stack, advance |-> TRUE, st |-> "ok", guard |-> NoState]

\* what perform_generic leaves: the stack, whether the lookahead is to be
\* advanced (its return value), and what check_guard returned for a guard
\* action; st is "ok" when the call returns
Performed(stack, advance) ==
    [stack |-> stack, advance |-> advance, st |-> "ok", guard |-> NoState]

\* case act_reduce / act_weakreduce, r being the reduced stack
PerformReduced(stack, r) ==
    IF r.bad THEN [Performed(stack, FALSE) EXCEPT !.st = "ub"]
    ELSE Performed(r.stack, FALSE)

\* a guard case whose guard runs on the parser's own stack and leaves the
\* state it reached there
PerformGuardOnStack(stack, guardSym) ==
    [stack |-> Append(stack, guardSym.sym), advance |-> TRUE, st |-> "ok",
     guard |-> guardSym.sym]

\* case act_guard, guardSym being what check_guard returned: matched or
\* not, the code returns true
PerformGuard(stack, guardSym) ==
    IF guardSym.st # "ret" THEN [Performed(stack, FALSE) EXCEPT !.st = guardSym.st]
    ELSE [Performed(stack, TRUE) EXCEPT !.guard = guardSym.sym]

\* perform_generic with standard_actions
perform_generic(t, stack, inp, pos, a) ==
    CASE a.type = "ignore" -> Performed(stack, TRUE)
      [] a.type = "shift" -> Performed(Append(stack, a.next), TRUE)
      [] a.type = "divert" -> Performed(Append(stack, a.next), FALSE)
      [] a.type \in {"reduce", "weakreduce"} ->
           PerformReduced(stack, reduce(t, stack, rule(t, a.next)))
      [] a.type = "goto" -> Performed(Append(Pop(stack), a.next), FALSE)
      [] a.type = "guard" ->
           PerformGuard(stack, check_guard(t, stack, inp, pos, a.next, 0, MaxSim))
      [] OTHER -> Performed(stack, FALSE)

RECURSIVE process_scan(_, _, _, _, _, _, _)

\* a candidate test that never asks can_reduce
PsNoTest(t, stack, isTerm, symbol, a) == "true"

\* the can_reduce test of a weak reduce candidate
PsCanReduce(t, stack, isTerm, symbol, a) ==
    IF a.type # "weakreduce" THEN "true"
    ELSE IF isTerm THEN can_reduce_terminal(t, stack, symbol)
    ELSE can_reduce_nonterminal(t, stack, symbol)

\* one candidate (at index act), cr being the outcome of its can_reduce test
PsAct(t, stack, isTerm, symbol, row, act, ubRes, cr) ==
    IF cr = "diverges" THEN [exec |-> 0, st |-> "diverges"]
    ELSE IF cr = "false" \/ (cr = "ub" /\ ubRes = "false")
    THEN process_scan(t, stack, isTerm, symbol, row, act + 1, ubRes)
    ELSE [exec |-> act, st |-> "ok"]

\* the candidate loop of process_generic from index act of the row: the
\* index of the action to perform (0: none, the step rejects), or st
\* "diverges" when can_reduce does not return
process_scan(t, stack, isTerm, symbol, row, act, ubRes) ==
    IF act > Len(row) THEN [exec |-> 0, st |-> "ok"]
    ELSE IF row[act].sym # symbol THEN [exec |-> 0, st |-> "ok"]
    ELSE PsAct(t, stack, isTerm, symbol, row, act, ubRes,
               PsCanReduce(t, stack, isTerm, symbol, row[act]))

\* what a step leaves
Stepped(result, stack, pos, exec, guard) ==
    [result |-> result, stack |-> stack, pos |-> pos, exec |-> exec, guard |-> guard]

\* the end of a step that performed action number exec, p being what
\* perform_generic left: actDelegate.next() if it returned true
PgPerformed(stack, pos, exec, p) ==
    IF p.st = "diverges" THEN Stepped("hung", stack, pos, exec, NoState)
    ELSE IF p.st = "ub" THEN Stepped("undefined", stack, pos, exec, NoState)
    ELSE Stepped("more", p.stack, IF p.advance THEN pos + 1 ELSE pos, exec, p.guard)

\* the chosen action a (number exec of the row)
PgAct(t, stack, inp, pos, exec, a) ==
    IF a.type = "accept" THEN Stepped("accept", stack, pos, exec, NoState)
    ELSE PgPerformed(stack, pos, exec, perform_generic(t, stack, inp, pos, a))

\* the end of the candidate loop, sc being what it found
PgScanned(t, stack, inp, pos, row, sc) ==
    IF sc.st = "diverges" THEN Stepped("hung", stack, pos, 0, NoState)
    ELSE IF sc.exec = 0 THEN Stepped("reject", stack, pos, 0, NoState)
    ELSE PgAct(t, stack, inp, pos, sc.exec, row[sc.exec])

\* process_generic(actDelegate, la, symbol, isTerminal, act, end)
PgRow(t, stack, inp, pos, isTerm, sym, row, ubRes) ==
    PgScanned(t, stack, inp, pos, row,
              process_scan(t, stack, isTerm, sym, row,
                           FirstAtLeast(row, sym), ubRes))

\* process_generic(actDelegate): one parsing step on the lookahead
process_generic(t, stack, inp, pos, ubRes) ==
    PgRow(t, stack, inp, pos, ~IsEoi(inp, pos, 0), LookSym(t, inp, pos, 0),
          Row(t, ~IsEoi(inp, pos, 0), Top(stack)), ubRes)

-----------------------------------------------------------------------------
(* The parts of the state a specification does not use stay as created *)

NoAction == [lang |-> FALSE, sym |-> 0, unit |-> "none", weak |-> FALSE]

NoResults ==
    [ab |-> FALSE, ba |-> FALSE, bc |-> FALSE, ac |-> FALSE, aa |-> FALSE,
     eq |-> FALSE]

NoLrResults == [ab |-> FALSE, ba |-> FALSE, bc |-> FALSE, ac |-> FALSE, aa |-> FALSE]

ParserIdle ==
    /\ tbl = 1
    /\ input = <<>>
    /\ m_Stack = <<0>>
    /\ m_LookaheadPos = 0
    /\ pResult = "none"
    /\ pExec = 0
    /\ pGuard = NoState
    /\ prevStack = <<0>>
    /\ prevPos = 0
    /\ lastOp = "create"
    /\ crSym = 0
    /\ crResult = "none"

AcceptIdle ==
    /\ aMode = "none"
    /\ aDone = FALSE
    /\ cmpA = NoAction
    /\ cmpB = NoAction
    /\ cmpC = NoAction
    /\ cmpRes = NoResults
    /\ acceptActions = <<>>
    /\ highest = {}
    /\ clashes = {}
    /\ unusedTerminals = {}

SymbolsIdle ==
    /\ m_Symbols = <<>>
    /\ prevSymbols = <<>>
    /\ symOp = "create"
    /\ symArg = [lower |-> 0, upper |-> 0]

DedupeIdle ==
    /\ has_duplicates = <<>>
    /\ no_duplicates = <<>>
    /\ ddDone = FALSE

\* a map with no entries
EmptyMap == [k \in {} |-> 0]

\* language_compiler::language_compiler: nothing defined, nothing reported
NewCompiler ==
    [m_Terminals |-> <<>>, m_TypeForTerminal |-> EmptyMap,
     m_UnusedSymbols |-> {}, m_TerminalDefinition |-> EmptyMap,
     m_Lexer |-> <<>>, m_IgnoredSymbols |-> {}, m_WeakSymbols |-> {},
     m_Nonterminals |-> <<>>, m_Rules |-> EmptyMap,
     m_FirstNonterminalUsage |-> EmptyMap, rule |-> <<>>, console |-> <<>>,
     symIds |-> EmptyMap, implicit |-> <<>>, defLog |-> <<>>]

LanguageIdle ==
    /\ m_Language = <<>>
    /\ compiler = NewCompiler
    /\ lcDone = FALSE

\* main() has not returned
NotReturned == 0 - 1

\* a console nothing was reported to
NewConsole == [reported |-> <<>>, exit_code |-> 0]

NoOptions ==
    [item |-> FALSE, file |-> <<>>, compileLanguage |-> "", startSymbols |-> <<>>,
     targetLanguage |-> "", test |-> ""]

DriverIdle ==
    /\ options = NoOptions
    /\ mainPc = "parse"
    /\ stagesRun = <<>>
    /\ cons = NewConsole
    /\ returned = NotReturned

\* no automaton
NULL == 0

\* lexer_stage::lexer_stage: no DFA yet; nothing is allocated
NewLexerStage ==
    [pc |-> "start", heap |-> <<>>, stage0 |-> NULL, stage1 |-> NULL,
     stage2 |-> NULL, stage3 |-> NULL, stage4 |-> NULL, m_Dfa |-> NULL,
     passes |-> <<>>, reported |-> <<>>]

NoLexInput ==
    [missing |-> FALSE, weakSymbolIds |-> {}, disableCompactDfa |-> "",
     disableMergedDfa |-> "", uniqueFails |-> FALSE, dfaFails |-> FALSE]

LexerStageIdle ==
    /\ lexInput = NoLexInput
    /\ lexerStage = NewLexerStage

\* a builder in a scope with the case options lower and upper
NewBuilder(lower, upper) ==
    [make_lowercase |-> lower, make_uppercase |-> upper, stack |-> <<>>,
     added |-> <<>>]

ExpressionIdle ==
    /\ m_Data = <<>>
    /\ builder = NewBuilder(FALSE, FALSE)
    /\ exprResult = "none"

NoLrAction == [m_Item |-> 0, m_Type |-> "act_shift", m_NextState |-> 0, m_Rule |-> 0]

LrActionIdle ==
    /\ lrA = NoLrAction
    /\ lrB = NoLrAction
    /\ lrC = NoLrAction
    /\ lrRes = NoLrResults
    /\ lrDone = FALSE

\* run() has not been called
NoRun == [flat |-> 0 - 2, compact |-> 0 - 2]

MachineIdle ==
    /\ dfa = <<>>
    /\ runArgs = [state |-> 0, symbol |-> 0]
    /\ runResult = NoRun

\* the parts after the language compiler are not in use
OthersIdle ==
    DriverIdle /\ LexerStageIdle /\ ExpressionIdle /\ LrActionIdle /\ MachineIdle

\* the parts up to the language compiler are not in use
BaseIdle ==
    ParserIdle /\ AcceptIdle /\ SymbolsIdle /\ DedupeIdle /\ LanguageIdle

\* all of them but the one named are not in use
DriverRestIdle ==
    BaseIdle /\ LexerStageIdle /\ ExpressionIdle /\ LrActionIdle /\ MachineIdle

LexerRestIdle ==
    BaseIdle /\ DriverIdle /\ ExpressionIdle /\ LrActionIdle /\ MachineIdle

ExprRestIdle ==
    BaseIdle /\ DriverIdle /\ LexerStageIdle /\ LrActionIdle /\ MachineIdle

LrRestIdle ==
    BaseIdle /\ DriverIdle /\ LexerStageIdle /\ ExpressionIdle /\ MachineIdle

MachineRestIdle ==
    BaseIdle /\ DriverIdle /\ LexerStageIdle /\ ExpressionIdle /\ LrActionIdle

-----------------------------------------------------------------------------
(* The parser as a state machine *)

UbOutcomes == {"true", "false"}

InitParser ==
    /\ tbl \in TableIds
    /\ input \in SeqsUpTo(Terminals(tbl), MaxInputLen)
    /\ m_Stack = <<0>>
    /\ m_LookaheadPos = 0
    /\ pResult = "none"
    /\ pExec = 0
    /\ pGuard = NoState
    /\ prevStack = <<0>>
    /\ prevPos = 0
    /\ lastOp = "create"
    /\ crSym = 0
    /\ crResult = "none"

\* the assignments of a process() call that left r
ProcessDone(r) ==
    /\ m_Stack' = r.stack
    /\ m_LookaheadPos' = r.pos
    /\ pResult' = r.result
    /\ pExec' = r.exec
    /\ pGuard' = r.guard

\* state::process(), called while the parse goes on (state::parse)
Process ==
    /\ pResult \in {"none", "more"}
    /\ \E ubRes \in UbOutcomes :
         ProcessDone(process_generic(tbl, m_Stack, input, m_LookaheadPos, ubRes))
    /\ prevStack' = m_Stack
    /\ prevPos' = m_LookaheadPos
    /\ lastOp' = "process"
    /\ crSym' = 0
    /\ crResult' = "none"
    /\ UNCHANGED <<tbl, input, avars, svars, dvars, lvars, ovars>>

\* the assignments of a can_reduce call that left r
CanReduceDone(r, ubRes) ==
    /\ crResult' = IF r = "ub" THEN ubRes ELSE r
    /\ pResult' = IF r = "diverges" THEN "hung" ELSE pResult

\* state::can_reduce(int terminalId), called between two parsing steps
CanReduceCall ==
    /\ pResult \in {"none", "more"}
    /\ \E terminalId \in Terminals(tbl), ubRes \in UbOutcomes :
         /\ crSym' = terminalId
         /\ CanReduceDone(can_reduce_terminal(tbl, m_Stack, terminalId), ubRes)
    /\ prevStack' = m_Stack
    /\ prevPos' = m_LookaheadPos
    /\ lastOp' = "can_reduce"
    /\ pExec' = 0
    /\ pGuard' = NoState
    /\ UNCHANGED <<tbl, input, m_Stack, m_LookaheadPos, avars, svars, dvars,
                   lvars, ovars>>

NextParser == Process \/ CanReduceCall

\* a parser alone: no lexer stage, no symbol set
InitSpecParser ==
    InitParser /\ AcceptIdle /\ SymbolsIdle /\ DedupeIdle /\ LanguageIdle
    /\ OthersIdle

SpecParser == InitSpecParser /\ [][NextParser]_vars

-----------------------------------------------------------------------------
(* Properties of the parser (SpecParser) *)

\* the row the last process() call searched, and the symbol it looked up
PrevIsTerm == ~IsEoi(input, prevPos, 0)

PrevSym == LookSym(tbl, input, prevPos, 0)

PrevRow == Row(tbl, PrevIsTerm, Top(prevStack))

\* the indices of the candidate actions: those of the row for the symbol
Candidates == {i \in 1..Len(PrevRow) : PrevRow[i].sym = PrevSym}

\* what can_reduce gives for the lookahead on the stack the step started on
PrevCanReduce ==
    IF PrevIsTerm THEN can_reduce_terminal(tbl, prevStack, PrevSym)
    ELSE can_reduce_nonterminal(tbl, prevStack, PrevSym)

\* the last operation was a process() call that returned
Returned == lastOp = "process" /\ pResult \in {"more", "accept", "reject"}

\* the last operation was a process() call that executed an action of the
\* given types
Executed(types) ==
    /\ lastOp = "process"
    /\ pResult \in {"more", "accept"}
    /\ pExec # 0
    /\ PrevRow[pExec].type \in types

\* ---- C1 ----
\* the states reached from configuration c (a stack of states) by one
\* simulated reduce or divert on the symbol
RefSucc(t, isTerm, symbol, c) ==
    LET row == Row(t, isTerm, Top(c))
        acts == {row[i] : i \in {j \in 1..Len(row) : row[j].sym = symbol}}
    IN  {Append(c, a.next) : a \in {b \in acts : b.type = "divert"}}
        \cup
        {Append(SubSeq(c, 1, Len(c) - rule(t, a.next).len),
                GotoTarget(t, c[Len(c) - rule(t, a.next).len], rule(t, a.next).id)) :
            a \in {b \in acts :
                     /\ b.type \in {"reduce", "weakreduce"}
                     /\ rule(t, b.next).len < Len(c)
                     /\ GotoTarget(t, c[Len(c) - rule(t, b.next).len],
                                   rule(t, b.next).id) # NoState}}

\* the state on top of c has a shift or accept action for the symbol
RefDone(t, isTerm, symbol, c) ==
    \E i \in 1..Len(Row(t, isTerm, Top(c))) :
        /\ Row(t, isTerm, Top(c))[i].sym = symbol
        /\ Row(t, isTerm, Top(c))[i].type \in {"shift", "accept"}

RECURSIVE RefReach(_, _, _, _, _)
\* some sequence of at most n simulated reduces and diverts from a
\* configuration of F reaches a state that shifts or accepts the symbol
RefReach(t, isTerm, symbol, F, n) ==
    IF \E c \in F : RefDone(t, isTerm, symbol, c) THEN TRUE
    ELSE IF n = 0 \/ F = {} THEN FALSE
    ELSE RefReach(t, isTerm, symbol,
                  UNION {RefSucc(t, isTerm, symbol, c) : c \in F}, n - 1)

\* C1: can_reduce(t) returns true if and only if some finite sequence of
\* simulated reduces and diverts from the stack configuration reaches a
\* state whose action for t is shift or accept.
C1_CanReduceIffReachable ==
    lastOp = "can_reduce" =>
        ((crResult = "true") <=> RefReach(tbl, TRUE, crSym, {prevStack}, MaxSim))

\* C1: a call of can_reduce(t) on a divert action whose target shifts t:
\* one divert reaches the shift, and the call does not return
C1_DivertNeverReturns ==
    /\ lastOp = "can_reduce"
    /\ crResult = "diverges"
    /\ \E c \in RefSucc(tbl, TRUE, crSym, prevStack) : RefDone(tbl, TRUE, crSym, c)

\* ---- C2 ----
\* candidate i is a weak reduce that can_reduce turns down ("ub": a
\* can_reduce that read out of bounds may have returned either value)
Skippable(i) ==
    PrevRow[i].type = "weakreduce" /\ PrevCanReduce \in {"false", "ub"}

\* candidate i may be executed
Executable(i) ==
    PrevRow[i].type = "weakreduce" => PrevCanReduce \in {"true", "ub"}

C3_GuardSubstitutesOrSkips ==
    Executed({"guard"}) => (pGuard # NoState /\ m_LookaheadPos = prevPos)

\* C3: a step whose guard did not accept, and which nevertheless executed
\* the guard action and moved the lookahead on, past a shift candidate for
\* the same symbol
C3_FailedGuardConsumes ==
    /\ Executed({"guard"})
    /\ pGuard = NoState
    /\ m_LookaheadPos = prevPos + 1
    /\ pExec + 1 \in Candidates

\* ---- C4 ----
\* the rule of the action the last step executed
ExecRule == rule(tbl, PrevRow[pExec].next)

\* C4: an executed reduce or weak reduce by a rule of length n pops n entries
\* and pushes one, the target of the goto action for the rule's nonterminal
\* in the state the pops expose; the lookahead position is unchanged.
C4_ReducePopsAndPushesGoto ==
    Executed({"reduce", "weakreduce"}) =>
        /\ ExecRule.len < Len(prevStack)
        /\ Len(m_Stack) = Len(prevStack) - ExecRule.len + 1
        /\ Pop(m_Stack) = SubSeq(prevStack, 1, Len(prevStack) - ExecRule.len)
        /\ \E i \in 1..Len(Row(tbl, FALSE, Top(Pop(m_Stack)))) :
               Row(tbl, FALSE, Top(Pop(m_Stack)))[i] =
                   Act(ExecRule.id, "goto", Top(m_Stack))
        /\ m_LookaheadPos = prevPos

\* C4: a step that reduced by a rule of length three
C4_ReducedLongRule ==
    /\ Executed({"reduce", "weakreduce"})
    /\ ExecRule.len = 3
    /\ Len(prevStack) = 4

\* ---- C5 ----
\* C5: an executed ignore action moves the lookahead on by one and leaves the
\* stack as it was; an executed divert action pushes its next state and
\* leaves the lookahead position as it was.
C5_IgnoreAndDivertFrames ==
    /\ Executed({"ignore"}) =>
         (m_Stack = prevStack /\ m_LookaheadPos = prevPos + 1)
    /\ Executed({"divert"}) =>
         (m_Stack = Append(prevStack, PrevRow[pExec].next) /\ m_LookaheadPos = prevPos)

\* C5: a divert executed on the second symbol of the stream, the first
\* having been ignored
C5_DivertAfterIgnore ==
    /\ Executed({"divert"})
    /\ prevPos = 1
    /\ input[1] = 1
    /\ prevStack = <<0>>

-----------------------------------------------------------------------------
(* Accept actions of the lexer stage.                                       *)
(* An accept action is a record: lang tells a language_accept_action from a *)
(* plain accept_action, sym is its symbol; a language action also has its   *)
(* unit type and its weakness.                                              *)

\* longest accept-action list of a DFA state
MaxListLen == 3

\* the terminal ids of the language
TerminalIds == {0, 1}

\* language_unit::unit_type, by the value of the enumerator: the units are
\* declared in priority order
UnitTypes ==
    {"weak_keywords", "weak_lexer", "keywords", "lexer", "ignore", "lexer_symbols"}

UnitRank(u) ==
    CASE u = "weak_keywords" -> 0
      [] u = "weak_lexer"    -> 1
      [] u = "keywords"      -> 2
      [] u = "lexer"         -> 3
      [] u = "ignore"        -> 4
      [] OTHER               -> 5

\* language_accept_action(symbol, unitType, isWeak)
LanguageActions ==
    [lang : {TRUE}, sym : TerminalIds, unit : UnitTypes, weak : BOOLEAN]

\* accept_action(symbol)
StandardActions ==
    [lang : {FALSE}, sym : TerminalIds, unit : {"none"}, weak : {FALSE}]

AcceptActions == LanguageActions \cup StandardActions

\* accept_action::operator<: "by default, actions with lower symbol IDs are
\* more important than those with higher symbol IDs"
accept_action_less(this, compareTo) == this.sym > compareTo.sym

\* an operator< that leaves out the unit types
language_accept_action_less_units(this, compareTo) ==
    IF ~compareTo.lang THEN TRUE
    ELSE IF compareTo.weak # this.weak THEN compareTo.weak
    ELSE this.sym > compareTo.sym

\* language_accept_action::operator<(compareTo): whether this action is less
\* important than compareTo
language_accept_action_less(this, compareTo) ==
    IF ~compareTo.lang THEN TRUE
    ELSE IF compareTo.weak # this.weak THEN compareTo.weak
    ELSE IF UnitRank(compareTo.unit) < UnitRank(this.unit) THEN TRUE
    ELSE IF UnitRank(compareTo.unit) > UnitRank(this.unit) THEN FALSE
    ELSE this.sym > compareTo.sym

\* *a < *b through the virtual operator<
Less(a, b) ==
    IF a.lang THEN language_accept_action_less(a, b) ELSE accept_action_less(a, b)

\* accept_action::operator==: the standard equality test
accept_action_equal(this, compareTo) == this.sym = compareTo.sym

\* language_accept_action::operator==(compareTo)
language_accept_action_equal(this, compareTo) ==
    IF compareTo = this THEN TRUE
    ELSE IF ~compareTo.lang THEN FALSE
    ELSE IF ~accept_action_equal(this, compareTo) THEN FALSE
    ELSE this.unit = compareTo.unit

\* *a == b through the virtual operator==
Equal(a, b) ==
    IF a.lang THEN language_accept_action_equal(a, b) ELSE accept_action_equal(a, b)

\* a loop body that keeps the action it started with
PickFirst(high, action) == high

\* the body of the loop that picks the highest action: the action that is
\* the highest after `action` was looked at
PickHighest(high, action) == IF Less(high, action) THEN action ELSE high

\* the clash the loop body records
PickClash(high, action) ==
    IF Less(high, action) THEN <<high.sym, action.sym>> ELSE <<action.sym, high.sym>>

RECURSIVE PickLoop(_, _, _, _)
\* the loop over the actions of a state after the first, from index i
PickLoop(list, i, high, cl) ==
    IF i > Len(list) THEN [highest |-> high, clashes |-> cl]
    ELSE PickLoop(list, i + 1, PickHighest(high, list[i]),
                  cl \cup {PickClash(high, list[i])})

\* lexer_stage::compile, the body of the loop over the DFA states, for a
\* state with a non-empty action list
CompileState(list, cl) == PickLoop(list, 2, list[1], cl)

InitAccept ==
    /\ aMode \in {"compare", "compile"}
    /\ aDone = FALSE
    /\ cmpA \in IF aMode = "compare" THEN AcceptActions ELSE {NoAction}
    /\ cmpB \in IF aMode = "compare" THEN AcceptActions ELSE {NoAction}
    /\ cmpC \in IF aMode = "compare" THEN AcceptActions ELSE {NoAction}
    /\ cmpRes = NoResults
    /\ acceptActions \in IF aMode = "compile"
                         THEN SeqsUpTo(LanguageActions, MaxListLen) ELSE {<<>>}
    /\ highest = {}
    /\ clashes = {}
    /\ unusedTerminals = TerminalIds

\* operator< applied to the three actions
Compare ==
    /\ aMode = "compare"
    /\ ~aDone
    /\ aDone' = TRUE
    /\ cmpRes' = [ab |-> Less(cmpA, cmpB), ba |-> Less(cmpB, cmpA),
                  bc |-> Less(cmpB, cmpC), ac |-> Less(cmpA, cmpC),
                  aa |-> Less(cmpA, cmpA), eq |-> Equal(cmpA, cmpB)]
    /\ UNCHANGED <<aMode, cmpA, cmpB, cmpC, acceptActions, highest, clashes,
                   unusedTerminals, pvars, svars, dvars, lvars, ovars>>

\* the assignments of the loop body that left r
CompileDone(r) ==
    /\ highest' = {r.highest}
    /\ clashes' = r.clashes
    /\ unusedTerminals' = unusedTerminals \ {r.highest.sym}

\* lexer_stage::compile on a DFA state: empty action sets are ignored
Compile ==
    /\ aMode = "compile"
    /\ ~aDone
    /\ aDone' = TRUE
    /\ IF acceptActions = <<>>
       THEN UNCHANGED <<highest, clashes, unusedTerminals>>
       ELSE CompileDone(CompileState(acceptActions, clashes))
    /\ UNCHANGED <<aMode, cmpA, cmpB, cmpC, cmpRes, acceptActions, pvars, svars,
                   dvars, lvars, ovars>>

NextAccept == Compare \/ Compile

\* a lexer stage alone: no parser, no symbol set
InitSpecAccept ==
    ParserIdle /\ InitAccept /\ SymbolsIdle /\ DedupeIdle /\ LanguageIdle
    /\ OthersIdle

SpecAccept == InitSpecAccept /\ [][NextAccept]_vars

-----------------------------------------------------------------------------
(* Properties of the accept actions (SpecAccept) *)

Compared == aMode = "compare" /\ aDone

\* ---- C6 ----
\* C6: for a language action L and a standard action S, L < S is false.
C6_LanguageNotBelowStandard ==
    (Compared /\ cmpA.lang /\ ~cmpB.lang) => ~cmpRes.ab

\* C6: a language action compared with a standard action, and found less
\* important
C6_LanguageBelowStandard ==
    Compared /\ cmpA.lang /\ ~cmpB.lang /\ cmpRes.ab

\* ---- C7 ----
\* the priority of a unit type, highest first: weak-keywords, weak-lexer,
\* keywords, lexer, ignore, lexer-symbols
UnitPriorityList ==
    <<"weak_keywords", "weak_lexer", "keywords", "lexer", "ignore", "lexer_symbols">>

\* unit u has a lower priority than unit v: it stands later in the list
LowerPriority(u, v) ==
    \E i, j \in 1..Len(UnitPriorityList) :
        UnitPriorityList[i] = u /\ UnitPriorityList[j] = v /\ i > j

\* the order of two language actions
Below(a, b) ==
    \/ ~a.weak /\ b.weak
    \/ a.weak = b.weak /\ LowerPriority(a.unit, b.unit)
    \/ a.weak = b.weak /\ a.unit = b.unit /\ a.sym > b.sym

\* C7: for language actions A and B, A < B exactly when A is strong and B
\* weak, or they are equally weak and A's unit type has the lower priority,
\* or they are equally weak, of the same unit type, and A's symbol id is the
\* greater; the relation is irreflexive, asymmetric, transitive, and any two
\* distinct actions are comparable.
C7_LanguageOrderIsStrictTotal ==
    (Compared /\ cmpA.lang /\ cmpB.lang /\ cmpC.lang) =>
        /\ cmpRes.ab <=> Below(cmpA, cmpB)
        /\ ~cmpRes.aa
        /\ cmpRes.ab => ~cmpRes.ba
        /\ (cmpRes.ab /\ cmpRes.bc) => cmpRes.ac
        /\ cmpA # cmpB => (cmpRes.ab \/ cmpRes.ba)

\* C7: three language actions compared, equally weak, the first below the
\* second by its unit type although its symbol id is the lower, the second
\* below the third
C7_ComparedByUnitType ==
    /\ Compared /\ cmpA.lang /\ cmpB.lang /\ cmpC.lang
    /\ cmpA.weak = cmpB.weak
    /\ cmpA.unit = "lexer" /\ cmpB.unit = "keywords"
    /\ cmpA.sym < cmpB.sym
    /\ cmpRes.ab /\ cmpRes.bc /\ cmpRes.ac

\* ---- C8 ----
\* C8: the action picked for a DFA state with a non-empty action list is an
\* action of the list, and no action of the list is greater.
C8_HighestIsMaximum ==
    (aMode = "compile" /\ aDone /\ acceptActions # <<>>) =>
        \E h \in highest :
            /\ highest = {h}
            /\ \E i \in 1..Len(acceptActions) : acceptActions[i] = h
            /\ \A i \in 1..Len(acceptActions) : ~Less(h, acceptActions[i])

\* C8: a list of three different actions whose greatest is the second
C8_HighestInTheMiddle ==
    /\ aMode = "compile" /\ aDone
    /\ Len(acceptActions) = 3
    /\ highest = {acceptActions[2]}
    /\ Less(acceptActions[1], acceptActions[3])
    /\ Less(acceptActions[3], acceptActions[2])

-----------------------------------------------------------------------------
(* The symbol set: a std::set of ranges [lower, upper) whose comparator     *)
(* looks at the lower bound only.  m_Symbols lists its elements in the      *)
(* order of the set.                                                        *)

\* the symbols are 0 .. MaxSym - 1, the bounds of a range 0 .. MaxSym
MaxSym == 4

symbol_range(lower, upper) == [lower |-> lower, upper |-> upper]

\* the ranges an operation is called with
Ranges == {r \in [lower : 0..MaxSym, upper : 0..MaxSym] : r.lower < r.upper}

\* symbol_range::can_merge: the ranges overlap or touch
can_merge(r, with) == r.lower <= with.upper /\ with.lower <= r.upper

\* symbol_range::merge: the range covering both
merge(r, with) ==
    symbol_range(IF r.lower < with.lower THEN r.lower ELSE with.lower,
                 IF r.upper > with.upper THEN r.upper ELSE with.upper)

\* symbol_range::operator[]: the symbol is in the range
InRange(r, symbol) == r.lower <= symbol /\ symbol < r.upper

\* std::set::lower_bound(range): the index of the first element whose lower
\* bound is >= lower; Len + 1 is end()
lower_bound(set, lower) ==
    Min({i \in 1..Len(set) : set[i].lower >= lower} \cup {Len(set) + 1})

\* std::set::upper_bound(value): the index of the first element whose lower
\* bound is > value
upper_bound(set, value) ==
    Min({i \in 1..Len(set) : set[i].lower > value} \cup {Len(set) + 1})

\* std::set::erase(first, last): the elements from first up to, and not
\* including, last leave the set
erase(set, first, last) ==
    SubSeq(set, 1, first - 1) \o SubSeq(set, last, Len(set))

\* std::set::insert(range), at the place i that lower_bound gives: nothing is
\* inserted when the set holds an element equal under the comparator
InsertAt(set, r, i) ==
    IF i <= Len(set) /\ set[i].lower = r.lower THEN set
    ELSE SubSeq(set, 1, i - 1) \o <<r>> \o SubSeq(set, i, Len(set))

insert(set, r) == InsertAt(set, r, lower_bound(set, r.lower))

\* "If this isn't at the beginning, it's possible we partially overlap the
\* preceeding set": the element an operation on r starts at, firstGreaterThan
\* being lower_bound(r)
StartAt(set, r, firstGreaterThan) ==
    IF firstGreaterThan # 1 /\ set[firstGreaterThan - 1].upper >= r.lower
    THEN firstGreaterThan - 1
    ELSE firstGreaterThan

RECURSIVE MergeLoop(_, _, _, _)
\* the loop merging the elements from it up to finalValue into mergedRange
MergeLoop(set, it, finalValue, mergedRange) ==
    IF it >= finalValue THEN mergedRange
    ELSE MergeLoop(set, it + 1, finalValue, merge(mergedRange, set[it]))

\* operator|=, the ranges overlap: replace the merged values
MergeFrom(set, mergeWith, firstGreaterThan, finalValue) ==
    insert(erase(set, firstGreaterThan, finalValue),
           MergeLoop(set, firstGreaterThan, finalValue, mergeWith))

\* operator|=, once the first range is known
MergeAt(set, mergeWith, firstGreaterThan) ==
    IF firstGreaterThan = Len(set) + 1
    THEN insert(set, mergeWith)
    ELSE IF ~can_merge(mergeWith, set[firstGreaterThan])
    THEN insert(set, mergeWith)
    ELSE MergeFrom(set, mergeWith, firstGreaterThan,
                   upper_bound(set, mergeWith.upper))

\* symbol_set::operator|=(const symbol_range& mergeWith)
symbol_set_merge(set, mergeWith) ==
    MergeAt(set, mergeWith, StartAt(set, mergeWith, lower_bound(set, mergeWith.lower)))

\* operator&=: "Add new ranges", what is left of the final range
ExcludeUpper(set, exclude, final) ==
    IF final.upper > exclude.upper
    THEN insert(set, symbol_range(exclude.upper, final.upper))
    ELSE set

\* operator&=: "Add new ranges", what is left of the initial range
ExcludeLower(set, exclude, initial) ==
    IF initial.lower < exclude.lower
    THEN insert(set, symbol_range(initial.lower, exclude.lower))
    ELSE set

\* operator&=: "Erase the ranges with excluded characters"
EraseExcluded(set, firstGreaterThan, finalValue) ==
    erase(set, firstGreaterThan, finalValue)

\* operator&=, the ranges overlap; finalValue is upper_bound(exclude.upper())
\* moved back by one
ExcludeFrom(set, exclude, firstGreaterThan, finalValue) ==
    ExcludeUpper(ExcludeLower(EraseExcluded(set, firstGreaterThan, finalValue),
                              exclude, set[firstGreaterThan]),
                 exclude, set[finalValue])

\* operator&=, once the first range is known
ExcludeAt(set, exclude, firstGreaterThan) ==
    IF firstGreaterThan = Len(set) + 1 THEN set
    ELSE IF ~can_merge(exclude, set[firstGreaterThan]) THEN set
    ELSE ExcludeFrom(set, exclude, firstGreaterThan,
                     upper_bound(set, exclude.upper) - 1)

\* symbol_set::operator&=(const symbol_range& exclude)
symbol_set_exclude(set, exclude) ==
    ExcludeAt(set, exclude, StartAt(set, exclude, lower_bound(set, exclude.lower)))

\* operator[], once the nearest value is known
ContainsAt(set, symbol, nearestValue) ==
    IF nearestValue = 1 THEN FALSE ELSE InRange(set[nearestValue - 1], symbol)

\* symbol_set::operator[](int symbol)
symbol_set_contains(set, symbol) ==
    ContainsAt(set, symbol, upper_bound(set, symbol))

\* symbol_set::symbol_set(): the empty set
InitSymbols ==
    /\ m_Symbols = <<>>
    /\ prevSymbols = <<>>
    /\ symOp = "create"
    /\ symArg = symbol_range(0, 0)

\* set |= range
Insert ==
    \E r \in Ranges :
        /\ m_Symbols' = symbol_set_merge(m_Symbols, r)
        /\ prevSymbols' = m_Symbols
        /\ symOp' = "insert"
        /\ symArg' = r
        /\ UNCHANGED <<pvars, avars, dvars, lvars, ovars>>

\* set &= range
Remove ==
    \E r \in Ranges :
        /\ m_Symbols' = symbol_set_exclude(m_Symbols, r)
        /\ prevSymbols' = m_Symbols
        /\ symOp' = "remove"
        /\ symArg' = r
        /\ UNCHANGED <<pvars, avars, dvars, lvars, ovars>>

NextSymbols == Insert \/ Remove

\* a symbol set alone: no parser, no lexer stage
InitSpecSymbols ==
    ParserIdle /\ AcceptIdle /\ InitSymbols /\ DedupeIdle /\ LanguageIdle
    /\ OthersIdle

SpecSymbols == InitSpecSymbols /\ [][NextSymbols]_vars

-----------------------------------------------------------------------------
(* Properties of the symbol set (SpecSymbols) *)

\* ---- C9 ----
\* the ranges are strictly ordered, apart and not touching: each ends before
\* the next begins
Canonical(set) ==
    \A i, j \in 1..Len(set) : i < j => set[i].upper < set[j].lower

\* C9: after any sequence of inserts and removes from the empty set, the
\* stored ranges are strictly ordered by lower bound, do not overlap and are
\* not adjacent.
C9_RangesCanonical == Canonical(m_Symbols)

\* C9: a remove from inside the only range of a canonical set, which leaves
\* two ranges that overlap
C9_RemoveLeavesOverlap ==
    /\ symOp = "remove"
    /\ Canonical(prevSymbols)
    /\ Len(prevSymbols) = 1
    /\ Len(m_Symbols) = 2
    /\ m_Symbols[1].upper > m_Symbols[2].lower

\* ---- C10 ----
\* C10: after remove(r) a symbol is in the set if and only if it was in the
\* set before the call and is not in r.
C10_RemoveMembership ==
    symOp = "remove" =>
        \A s \in 0..MaxSym :
            symbol_set_contains(m_Symbols, s) <=>
                (symbol_set_contains(prevSymbols, s) /\ ~InRange(symArg, s))

\* C10: a remove of symbols from inside the only range of a canonical set,
\* after which a removed symbol is still in the set
C10_RemovedSymbolStays ==
    /\ symOp = "remove"
    /\ Canonical(prevSymbols)
    /\ Len(prevSymbols) = 1
    /\ prevSymbols[1].lower < symArg.lower
    /\ symArg.upper < prevSymbols[1].upper
    /\ symbol_set_contains(m_Symbols, symArg.lower)


\* ---- C11 ----
\* C11: after insert(r) a symbol is in the set if and only if it was in the
\* set before the call or lies in r, whatever ranges of the set r overlaps
\* or touches.
C11_InsertMembership ==
    symOp = "insert" =>
        \A s \in 0..MaxSym :
            symbol_set_contains(m_Symbols, s) <=>
                (symbol_set_contains(prevSymbols, s) \/ InRange(symArg, s))

\* C11: an insert into a set that earlier removes left with overlapping
\* ranges, after which a symbol outside r that was not in the set is in it
C11_InsertAddsOutsideSymbol ==
    /\ symOp = "insert"
    /\ ~Canonical(prevSymbols)
    /\ \E s \in 0..MaxSym :
        /\ ~InRange(symArg, s)
        /\ ~symbol_set_contains(prevSymbols, s)
        /\ symbol_set_contains(m_Symbols, s)


-----------------------------------------------------------------------------
(* The symbol map and its deduplication.  A symbol map gives an identifier *)
(* to each range added to it; ranges of different identifiers may overlap. *)
(* deduplicate builds a map whose ranges do not overlap and remembers, for *)
(* each new identifier, the old identifiers it stands for.                 *)

\* number of ranges added to a symbol map
MaxSets == 2

\* symbol_map::identifier_for_symbols: a range that is already in the map
\* keeps its identifier, a new one gets the next identifier
identifier_for_symbols(map, r) ==
    IF \E i \in 1..Len(map) : map[i] = r THEN map ELSE Append(map, r)

\* the symbols at which a range of the map begins or ends
Boundaries(map) ==
    {map[i].lower : i \in 1..Len(map)} \cup {map[i].upper : i \in 1..Len(map)}

\* only the first of the identifiers whose range holds the symbol
OldSymbolsFirst(map, symbol) ==
    IF \E i \in 1..Len(map) : InRange(map[i], symbol)
    THEN {Min({i \in 1..Len(map) : InRange(map[i], symbol)})}
    ELSE {}

\* remapped_symbol_map::old_symbols of the class that begins at a symbol: the
\* identifiers whose range holds it
old_symbols(map, symbol) == {i \in 1..Len(map) : InRange(map[i], symbol)}

\* the classes so far, and the class from one boundary to the next when a
\* range of the map covers it
DedupeAdd(map, lower, upper, old, classes) ==
    IF old = {}
    THEN classes
    ELSE Append(classes, [range |-> symbol_range(lower, upper), old |-> old])

RECURSIVE DedupeFrom(_, _, _, _)

DedupeNext(map, points, lower, upper, classes) ==
    DedupeFrom(map, points, upper,
               DedupeAdd(map, lower, upper, old_symbols(map, lower), classes))

\* walk the boundaries in increasing order
DedupeFrom(map, points, lower, classes) ==
    IF \A q \in points : q <= lower
    THEN classes
    ELSE DedupeNext(map, points, lower, Min({q \in points : q > lower}),
                    classes)

\* remapped_symbol_map::deduplicate
deduplicate(map) ==
    IF map = <<>>
    THEN <<>>
    ELSE DedupeFrom(map, Boundaries(map), Min(Boundaries(map)), <<>>)

InitDedupe == DedupeIdle

\* symbol_map::identifier_for_symbols(range)
IdentifierForSymbols ==
    /\ ~ddDone
    /\ Len(has_duplicates) < MaxSets
    /\ \E r \in Ranges :
        has_duplicates' = identifier_for_symbols(has_duplicates, r)
    /\ UNCHANGED <<no_duplicates, ddDone, pvars, avars, svars, lvars, ovars>>

\* remapped_symbol_map::deduplicate(has_duplicates)
Deduplicate ==
    /\ ~ddDone
    /\ no_duplicates' = deduplicate(has_duplicates)
    /\ ddDone' = TRUE
    /\ UNCHANGED <<has_duplicates, pvars, avars, svars, lvars, ovars>>

NextDedupe == IdentifierForSymbols \/ Deduplicate

\* a symbol map alone
InitSpecDedupe ==
    ParserIdle /\ AcceptIdle /\ SymbolsIdle /\ InitDedupe /\ LanguageIdle
    /\ OthersIdle

SpecDedupe == InitSpecDedupe /\ [][NextDedupe]_vars

-----------------------------------------------------------------------------
(* Properties of the symbol map (SpecDedupe) *)

\* ---- C12 ----
\* one range lies inside another
RangeWithin(inner, outer) ==
    outer.lower <= inner.lower /\ inner.upper <= outer.upper

\* C12: deduplicating a symbol map yields a partition: the new ranges are
\* pairwise disjoint, a symbol is covered by a new range if and only if it
\* is covered by an original range, every covered symbol is in exactly one
\* new class, and the old-symbols set of a new class is exactly the set of
\* the original identifiers whose ranges contain the class.
C12_DeduplicateIsPartition ==
    ddDone =>
        /\ \A k, l \in 1..Len(no_duplicates) :
            k # l =>
                \/ no_duplicates[k].range.upper <= no_duplicates[l].range.lower
                \/ no_duplicates[l].range.upper <= no_duplicates[k].range.lower
        /\ \A k \in 1..Len(no_duplicates) :
            no_duplicates[k].range.lower < no_duplicates[k].range.upper
        /\ \A s \in 0..MaxSym :
            (\E i \in 1..Len(has_duplicates) : InRange(has_duplicates[i], s))
                <=> (\E k \in 1..Len(no_duplicates) :
                        InRange(no_duplicates[k].range, s))
        /\ \A s \in 0..MaxSym :
            Cardinality({k \in 1..Len(no_duplicates) :
                            InRange(no_duplicates[k].range, s)}) <= 1
        /\ \A k \in 1..Len(no_duplicates) :
            no_duplicates[k].old =
                {i \in 1..Len(has_duplicates) :
                    RangeWithin(no_duplicates[k].range, has_duplicates[i])}

\* C12: two ranges that overlap in part have been deduplicated into three
\* classes: the first range alone, both, the second alone
C12_TwoOverlappingSets ==
    /\ ddDone
    /\ Len(has_duplicates) = 2
    /\ has_duplicates[1].lower < has_duplicates[2].lower
    /\ has_duplicates[2].lower < has_duplicates[1].upper
    /\ has_duplicates[1].upper < has_duplicates[2].upper
    /\ Len(no_duplicates) = 3
    /\ no_duplicates[1].old = {1}
    /\ no_duplicates[2].old = {1, 2}
    /\ no_duplicates[3].old = {2}
    /\ no_duplicates[2].range =
        symbol_range(has_duplicates[2].lower, has_duplicates[1].upper)

-----------------------------------------------------------------------------
(* The language compiler (src/Compiler/language_compiler.cpp).             *)
(*                                                                         *)
(* A language block is a sequence of blocks: a lexer block has a unit type *)
(* and a list of lexemes (their names), a grammar block has a list of      *)
(* nonterminal definitions, each with a type (assignment, replace, append) *)
(* and a list of productions, each a list of EBNF items.  The position of  *)
(* a lexeme is (block, lexeme), that of an EBNF item is (block,            *)
(* definition, production, item) followed by the child indexes of nested   *)
(* items.  A terminal identifier is its position in m_Terminals minus one. *)

\* number of lexer blocks in a language
MaxLexBlocks == 2

\* number of items in a production
MaxProdItems == 2

\* number of nonterminal definitions in a grammar block
MaxDefs == 3

\* lexerDefinitionOrder: the pass in which the blocks of a type are compiled
lexerDefinitionOrder ==
    <<"weak_keywords", "weak_lexer", "keywords", "lexer", "ignore">>

LexerBlock(type, items) ==
    [kind |-> "lexer", type |-> type, items |-> items, defs |-> <<>>]

GrammarBlock(defs) ==
    [kind |-> "grammar", type |-> "grammar", items |-> <<>>, defs |-> defs]

Definition(identifier, type, productions) ==
    [identifier |-> identifier, type |-> type, productions |-> productions]

EbnfItem(type, identifier, source, children) ==
    [type |-> type, identifier |-> identifier, source |-> source,
     children |-> children]

\* the EBNF item types whose children add_ebnf_lexer_items visits
EbnfWrappers ==
    {"guard", "alternative", "repeat_zero", "repeat_one", "optional",
     "parenthesized"}

\* the EBNF item types that stand for a terminal
EbnfTerminals == {"terminal", "terminal_character", "terminal_string"}

\* terminal_dictionary::symbol_for_name: the identifier of a name, -1 if the
\* name is not in the dictionary
symbol_for_name(terminals, name) ==
    IF \E i \in 1..Len(terminals) : terminals[i] = name
    THEN (CHOOSE i \in 1..Len(terminals) : terminals[i] = name) - 1
    ELSE 0 - 1

\* terminal_dictionary::add_symbol: a name that is in the dictionary keeps
\* its identifier, a new name gets the next identifier
add_symbol(terminals, name) ==
    IF symbol_for_name(terminals, name) >= 0
    THEN terminals
    ELSE Append(terminals, name)

\* map[key] = value
MapPut(map, key, value) ==
    [k \in DOMAIN map \cup {key} |-> IF k = key THEN value ELSE map[k]]

\* cons().report_error(error(severity, filename(), code, message, position))
Report(lc, code, name, pos) ==
    [lc EXCEPT !.console = Append(@, [code |-> code, name |-> name, pos |-> pos])]

\* the body of the lexeme loop after the duplicate check: the lexeme is
\* defined as the symbol symId
LexerItemDefined(lc, blockType, name, pos, symId) ==
    [lc EXCEPT
        !.m_Terminals = add_symbol(@, name),
        !.m_TypeForTerminal = MapPut(@, symId, blockType),
        !.m_UnusedSymbols = IF blockType # "ignore" THEN @ \cup {symId} ELSE @,
        !.m_TerminalDefinition = MapPut(@, symId, pos),
        !.m_Lexer = Append(@, [symbol |-> symId, pos |-> pos]),
        !.m_IgnoredSymbols = IF blockType = "ignore" THEN @ \cup {symId} ELSE @,
        !.m_WeakSymbols =
            IF blockType \in {"weak_lexer", "weak_keywords"}
            THEN @ \cup {symId}
            ELSE @,
        !.symIds = MapPut(@, pos, symId)]

\* one lexeme of a lexer block
LexerItem(lc, blockType, name, pos) ==
    LexerItemDefined(
        IF symbol_for_name(lc.m_Terminals, name) >= 0
        THEN Report(lc, "DUPLICATE_LEXER_SYMBOL", name, pos)
        ELSE lc,
        blockType, name, pos,
        symbol_for_name(add_symbol(lc.m_Terminals, name), name))

\* TRUE; it makes the state of the compiler a value before a loop goes on,
\* as the statements of the source run one after the other
Sequenced(lc) == lc.console = lc.console

RECURSIVE LexerItems(_, _, _, _, _)
\* the lexemes of a lexer block, in order
LexerItems(lc, blockType, items, b, i) ==
    IF Sequenced(lc) /\ i > Len(items)
    THEN lc
    ELSE LexerItems(LexerItem(lc, blockType, items[i], <<b, i>>),
                    blockType, items, b, i + 1)

RECURSIVE LexerBlocks(_, _, _, _)
\* the lexer blocks of one type, in the order of the language
LexerBlocks(lc, language, thisType, b) ==
    IF Sequenced(lc) /\ b > Len(language)
    THEN lc
    ELSE LexerBlocks(
            IF language[b].kind = "lexer" /\ language[b].type = thisType
            THEN LexerItems(lc, thisType, language[b].items, b, 1)
            ELSE lc,
            language, thisType, b + 1)

RECURSIVE LexerBlocksInSourceOrder(_, _, _)
\* one pass over the lexer blocks of every type, in the order of the language
LexerBlocksInSourceOrder(lc, language, b) ==
    IF Sequenced(lc) /\ b > Len(language)
    THEN lc
    ELSE LexerBlocksInSourceOrder(
            IF language[b].kind = "lexer"
            THEN LexerItems(lc, language[b].type, language[b].items, b, 1)
            ELSE lc,
            language, b + 1)

RECURSIVE LexerPasses(_, _, _)
\* one pass for each type of lexerDefinitionOrder
LexerPasses(lc, language, t) ==
    IF Sequenced(lc) /\ t > Len(lexerDefinitionOrder)
    THEN lc
    ELSE LexerPasses(LexerBlocks(lc, language, lexerDefinitionOrder[t], 1),
                     language, t + 1)

\* a terminal of the grammar is defined as the weak keyword symId
ImplicitlyDefined(lc, name, pos, symId) ==
    [lc EXCEPT
        !.m_Terminals = add_symbol(@, name),
        !.m_Lexer = Append(@, [symbol |-> symId, pos |-> pos]),
        !.m_UnusedSymbols = @ \cup {symId},
        !.m_TypeForTerminal = MapPut(@, symId, "weak_keywords"),
        !.m_WeakSymbols = @ \cup {symId},
        !.implicit = Append(@, [symbol |-> symId, name |-> name, pos |-> pos])]

\* the terminal cases with a warning for every implicit definition
AddTerminalWarned(lc, item, pos) ==
    IF item.type = "terminal" /\ item.source # ""
    THEN lc
    ELSE IF symbol_for_name(lc.m_Terminals, item.identifier) >= 0
    THEN lc
    ELSE ImplicitlyDefined(
            Report(lc, "IMPLICIT_LEXER_SYMBOL", item.identifier, pos),
            item.identifier, pos, Len(lc.m_Terminals))

\* the terminal cases of add_ebnf_lexer_items
AddTerminal(lc, item, pos) ==
    IF item.type = "terminal" /\ item.source # ""
    THEN lc
    ELSE IF symbol_for_name(lc.m_Terminals, item.identifier) >= 0
    THEN lc
    ELSE ImplicitlyDefined(
            IF item.type = "terminal"
            THEN Report(lc, "IMPLICIT_LEXER_SYMBOL", item.identifier, pos)
            ELSE lc,
            item.identifier, pos, Len(lc.m_Terminals))

RECURSIVE add_ebnf_lexer_items(_, _, _)
RECURSIVE AddChildren(_, _, _, _)

\* language_compiler::add_ebnf_lexer_items
add_ebnf_lexer_items(lc, item, pos) ==
    IF item.type \in EbnfWrappers
    THEN AddChildren(lc, item.children, pos, 1)
    ELSE IF item.type \in EbnfTerminals
    THEN AddTerminal(lc, item, pos)
    ELSE lc

\* the items of a production, or the children of an item, in order
AddChildren(lc, items, pos, i) ==
    IF Sequenced(lc) /\ i > Len(items)
    THEN lc
    ELSE AddChildren(add_ebnf_lexer_items(lc, items[i], Append(pos, i)),
                     items, pos, i + 1)

RECURSIVE AddProductions(_, _, _, _)
AddProductions(lc, productions, pos, p) ==
    IF Sequenced(lc) /\ p > Len(productions)
    THEN lc
    ELSE AddProductions(AddChildren(lc, productions[p], Append(pos, p), 1),
                        productions, pos, p + 1)

RECURSIVE AddDefinitions(_, _, _, _)
AddDefinitions(lc, defs, b, d) ==
    IF Sequenced(lc) /\ d > Len(defs)
    THEN lc
    ELSE AddDefinitions(AddProductions(lc, defs[d].productions, <<b, d>>, 1),
                        defs, b, d + 1)

RECURSIVE ImplicitPass(_, _, _)
\* the loop over the grammar blocks that defines the terminals of the grammar
ImplicitPass(lc, language, b) ==
    IF Sequenced(lc) /\ b > Len(language)
    THEN lc
    ELSE ImplicitPass(
            IF language[b].type = "grammar"
            THEN AddDefinitions(lc, language[b].defs, b, 1)
            ELSE lc,
            language, b + 1)

\* grammar::id_for_nonterminal: the nonterminals with the one named added
\* when it is new
WithNonterminal(nonterminals, name) ==
    IF \E i \in 1..Len(nonterminals) : nonterminals[i] = name
    THEN nonterminals
    ELSE Append(nonterminals, name)

\* grammar::id_for_nonterminal: the identifier of a nonterminal that has one
id_for_nonterminal(nonterminals, name) ==
    (CHOOSE i \in 1..Len(nonterminals) : nonterminals[i] = name) - 1

\* grammar::rules_for_nonterminal
rules_for_nonterminal(lc, id) ==
    IF id \in DOMAIN lc.m_Rules THEN lc.m_Rules[id] ELSE <<>>

\* an item of a compiled rule: a terminal or a nonterminal with its
\* identifier, or an EBNF item with its rules
RuleItem(type, id, rules) == [type |-> type, id |-> id, rules |-> rules]

\* compile_item for the terminal items
CompileTerminal(lc, terminalId) ==
    [lc EXCEPT
        !.m_UnusedSymbols = @ \ {terminalId},
        !.rule = Append(@, RuleItem("terminal", terminalId, <<>>))]

\* a nonterminal item compiled with its usage recorded every time
CompileNonterminalLastUsage(lc, item, pos, nonterminalId) ==
    [lc EXCEPT
        !.m_FirstNonterminalUsage = MapPut(@, nonterminalId, pos),
        !.rule = Append(@, RuleItem("nonterminal", nonterminalId, <<>>))]

\* compile_item for a nonterminal item whose identifier exists
CompileNonterminal(lc, item, pos, nonterminalId) ==
    [lc EXCEPT
        !.m_FirstNonterminalUsage =
            IF nonterminalId \in DOMAIN @ THEN @ ELSE MapPut(@, nonterminalId, pos),
        !.rule = Append(@, RuleItem("nonterminal", nonterminalId, <<>>))]

\* the name of the grammar item an EBNF item compiles into
WrapperType(type) ==
    CASE type = "optional"    -> "ebnf_optional"
      [] type = "repeat_one"  -> "ebnf_repeating"
      [] type = "repeat_zero" -> "ebnf_repeating_optional"
      [] type = "guard"       -> "guard"
      [] OTHER                -> "ebnf_alternate"

\* outer << newItem, where the rules of newItem were compiled into inner.rule
Wrapped(outer, type, rules, inner) ==
    [inner EXCEPT !.rule = Append(outer, RuleItem(WrapperType(type), 0 - 1, rules))]

RECURSIVE compile_item(_, _, _)
RECURSIVE CompileChildren(_, _, _, _)

\* the right-hand side of an alternative, after the left-hand side
CompileAlternative(outer, item, pos, left) ==
    Wrapped(outer, item.type, <<left.rule>>
                \o <<compile_item([left EXCEPT !.rule = <<>>],
                                  item.children[2], Append(pos, 2)).rule>>,
            compile_item([left EXCEPT !.rule = <<>>],
                         item.children[2], Append(pos, 2)))

\* an EBNF item with one rule, compiled from its first child
CompileWrapper(outer, item, inner) ==
    Wrapped(outer, item.type, <<inner.rule>>, inner)

\* language_compiler::compile_item: the item is appended to lc.rule
compile_item(lc, item, pos) ==
    CASE item.type \in EbnfTerminals ->
            CompileTerminal(lc, symbol_for_name(lc.m_Terminals, item.identifier))
      [] item.type = "nonterminal" ->
            CompileNonterminal(
                [lc EXCEPT !.m_Nonterminals = WithNonterminal(@, item.identifier)],
                item, pos,
                id_for_nonterminal(WithNonterminal(lc.m_Nonterminals, item.identifier),
                                   item.identifier))
      [] item.type = "parenthesized" ->
            CompileChildren(lc, item.children, pos, 1)
      [] item.type = "alternative" ->
            CompileAlternative(lc.rule, item, pos,
                compile_item([lc EXCEPT !.rule = <<>>], item.children[1],
                             Append(pos, 1)))
      [] item.type \in {"optional", "repeat_one", "repeat_zero", "guard"} ->
            CompileWrapper(lc.rule, item,
                compile_item([lc EXCEPT !.rule = <<>>], item.children[1],
                             Append(pos, 1)))
      [] OTHER -> Report(lc, "UNKNOWN_EBNF_ITEM_TYPE", item.identifier, pos)

\* the items of a production, or the children of a parenthesized item
CompileChildren(lc, items, pos, i) ==
    IF Sequenced(lc) /\ i > Len(items)
    THEN lc
    ELSE CompileChildren(compile_item(lc, items[i], Append(pos, i)),
                         items, pos, i + 1)

\* m_Grammar.rules_for_nonterminal(nonterminalId).push_back(newRule)
PushRule(lc, nonterminalId) ==
    [lc EXCEPT
        !.m_Rules = MapPut(@, nonterminalId,
                           Append(rules_for_nonterminal(lc, nonterminalId), lc.rule)),
        !.rule = <<>>]

RECURSIVE CompileProductions(_, _, _, _, _)
\* the productions of a definition, each compiled into a new rule
CompileProductions(lc, nonterminalId, productions, pos, p) ==
    IF Sequenced(lc) /\ p > Len(productions)
    THEN lc
    ELSE CompileProductions(
            PushRule(CompileChildren([lc EXCEPT !.rule = <<>>], productions[p],
                                     Append(pos, p), 1),
                     nonterminalId),
            nonterminalId, productions, pos, p + 1)

\* the record of a compiled definition: the definition, its position and the
\* rules of its nonterminal before and after
LoggedDefinition(lc, def, pos, nonterminalId, before) ==
    [lc EXCEPT !.defLog = Append(@,
        [definition |-> def, pos |-> pos, nonterminal |-> nonterminalId,
         before |-> before,
         after |-> rules_for_nonterminal(lc, nonterminalId)])]

\* the body of the loop with the rules kept by every type of definition
CompileDefinedKeeping(lc, def, pos, nonterminalId, alreadyDefined, before) ==
    LoggedDefinition(
        CompileProductions(
            IF def.type = "assignment" /\ alreadyDefined
            THEN Report(lc, "DUPLICATE_NONTERMINAL_DEFINITION", def.identifier, pos)
            ELSE lc,
            nonterminalId, def.productions, pos, 1),
        def, pos, nonterminalId, before)

\* the body of the loop over the definitions, for a nonterminal whose
\* identifier exists
CompileDefined(lc, def, pos, nonterminalId, alreadyDefined, before) ==
    LoggedDefinition(
        CompileProductions(
            IF def.type = "replace" /\ alreadyDefined
            THEN [lc EXCEPT !.m_Rules = MapPut(@, nonterminalId, <<>>)]
            ELSE IF def.type = "assignment" /\ alreadyDefined
            THEN Report(lc, "DUPLICATE_NONTERMINAL_DEFINITION", def.identifier, pos)
            ELSE lc,
            nonterminalId, def.productions, pos, 1),
        def, pos, nonterminalId, before)

\* a definition for which a nonterminal that has been used counts as defined
CompileDefinitionKnown(lc, def, pos, nonterminalId) ==
    CompileDefined(lc, def, pos, nonterminalId,
                   \/ Len(rules_for_nonterminal(lc, nonterminalId)) > 0
                   \/ nonterminalId \in DOMAIN lc.m_FirstNonterminalUsage,
                   rules_for_nonterminal(lc, nonterminalId))

\* one nonterminal definition of a grammar block
CompileDefinition(lc, def, pos, nonterminalId) ==
    CompileDefined(lc, def, pos, nonterminalId,
                   Len(rules_for_nonterminal(lc, nonterminalId)) > 0,
                   rules_for_nonterminal(lc, nonterminalId))

RECURSIVE CompileDefinitions(_, _, _, _)
CompileDefinitions(lc, defs, b, d) ==
    IF Sequenced(lc) /\ d > Len(defs)
    THEN lc
    ELSE CompileDefinitions(
            CompileDefinition(
                [lc EXCEPT !.m_Nonterminals = WithNonterminal(@, defs[d].identifier)],
                defs[d], <<b, d>>,
                id_for_nonterminal(
                    WithNonterminal(lc.m_Nonterminals, defs[d].identifier),
                    defs[d].identifier)),
            defs, b, d + 1)

RECURSIVE GrammarPass(_, _, _)
\* the loop over the grammar blocks that builds the grammar
GrammarPass(lc, language, b) ==
    IF Sequenced(lc) /\ b > Len(language)
    THEN lc
    ELSE GrammarPass(
            IF language[b].type = "grammar"
            THEN CompileDefinitions(lc, language[b].defs, b, 1)
            ELSE lc,
            language, b + 1)

\* position(-1, -1, -1)
NoPosition == <<0 - 1, 0 - 1, 0 - 1>>

RECURSIVE UnusedWarnings(_, _)
\* the warnings for the symbols left in m_UnusedSymbols, in increasing order
UnusedWarnings(lc, symId) ==
    IF Sequenced(lc) /\ symId >= Len(lc.m_Terminals)
    THEN lc
    ELSE UnusedWarnings(
            IF symId \notin lc.m_UnusedSymbols
            THEN lc
            ELSE IF symId \notin DOMAIN lc.m_TerminalDefinition
            THEN Report(lc, "BUG_UNKNOWN_SYMBOL", lc.m_Terminals[symId + 1], NoPosition)
            ELSE Report(lc, "UNUSED_TERMINAL_SYMBOL", lc.m_Terminals[symId + 1],
                        lc.m_TerminalDefinition[symId]),
            symId + 1)

RECURSIVE UndefinedNonterminals(_, _)
\* the errors for the nonterminals that have no rules, in increasing order
UndefinedNonterminals(lc, nonterminalId) ==
    IF Sequenced(lc) /\ nonterminalId >= Len(lc.m_Nonterminals)
    THEN lc
    ELSE UndefinedNonterminals(
            IF Len(rules_for_nonterminal(lc, nonterminalId)) # 0
            THEN lc
            ELSE Report(lc, "UNDEFINED_NONTERMINAL", lc.m_Nonterminals[nonterminalId + 1],
                        IF nonterminalId \in DOMAIN lc.m_FirstNonterminalUsage
                        THEN lc.m_FirstNonterminalUsage[nonterminalId]
                        ELSE NoPosition),
            nonterminalId + 1)

\* language_compiler::compile
language_compile(language) ==
    UndefinedNonterminals(
        UnusedWarnings(
            GrammarPass(ImplicitPass(LexerPasses(NewCompiler, language, 1),
                                     language, 1),
                        language, 1),
            0),
        0)

-----------------------------------------------------------------------------
(* The languages compiled.  Three families: lexer blocks of every type     *)
(* with a small grammar, one production of every kind of item, and         *)
(* sequences of definitions of a few nonterminals.                         *)

Terminal(name) == EbnfItem("terminal", name, "", <<>>)

Nonterminal(name) == EbnfItem("nonterminal", name, "", <<>>)

\* the lexemes of a lexer block
LexemeLists == {<<"a">>, <<"b">>, <<"a", "b">>, <<"b", "a">>, <<"a", "a">>}

\* the items of a production: terminals by name, a string, a character, a
\* terminal of another language, a nonterminal, and nested items with one,
\* two and (for the optional item) more children than the item compiles
Items ==
    {Terminal("a"), Terminal("c"),
     EbnfItem("terminal_string", "\"s\"", "", <<>>),
     EbnfItem("terminal_character", "'x'", "", <<>>),
     EbnfItem("terminal", "d", "other", <<>>),
     Nonterminal("Y"),
     EbnfItem("optional", "", "", <<Terminal("c"), Terminal("f")>>),
     EbnfItem("repeat_zero", "", "",
              <<EbnfItem("terminal_string", "\"s\"", "", <<>>)>>),
     EbnfItem("guard", "", "",
              <<EbnfItem("alternative", "", "",
                         <<Terminal("e"), Nonterminal("Z")>>)>>),
     EbnfItem("parenthesized", "", "",
              <<Terminal("a"), EbnfItem("terminal_character", "'x'", "", <<>>)>>)}

\* the production lists of a definition
ProductionLists ==
    {<<<<Terminal("a")>>>>,
     <<<<Nonterminal("Y"), Nonterminal("Z")>>, <<Terminal("a"), Nonterminal("Z")>>>>}

Definitions ==
    {Definition(n, t, ps) :
        n \in {"X", "Y"}, t \in {"assignment", "replace", "append"},
        ps \in ProductionLists}

LexerLanguages ==
    {lexers \o <<GrammarBlock(<<Definition("X", "assignment",
                    <<<<Terminal("a"), Terminal("c"),
                        EbnfItem("terminal_string", "\"s\"", "", <<>>)>>>>)>>)>> :
        lexers \in SeqsUpTo({LexerBlock(lexerDefinitionOrder[t], items) :
                                t \in 1..Len(lexerDefinitionOrder),
                                items \in LexemeLists},
                            MaxLexBlocks)}

ItemLanguages ==
    {<<LexerBlock("keywords", <<"a">>),
       GrammarBlock(<<Definition("X", "assignment", <<production>>)>>)>> :
        production \in SeqsUpTo(Items, MaxProdItems)}

DefinitionLanguages ==
    {<<GrammarBlock(defs)>> : defs \in SeqsUpTo(Definitions, MaxDefs)}

Languages == LexerLanguages \cup ItemLanguages \cup DefinitionLanguages

InitLanguage ==
    /\ m_Language \in Languages
    /\ compiler = NewCompiler
    /\ lcDone = FALSE

\* language_compiler::compile
CompileLanguage ==
    /\ ~lcDone
    /\ compiler' = language_compile(m_Language)
    /\ lcDone' = TRUE
    /\ UNCHANGED <<m_Language, pvars, avars, svars, dvars, ovars>>

NextLanguage == CompileLanguage

\* a language compiler alone
InitSpecLanguage ==
    ParserIdle /\ AcceptIdle /\ SymbolsIdle /\ DedupeIdle /\ InitLanguage
    /\ OthersIdle

SpecLanguage == InitSpecLanguage /\ [][NextLanguage]_vars

-----------------------------------------------------------------------------
(* Properties of the language compiler (SpecLanguage) *)

\* ---- C13 ----
RECURSIVE RuleTerminals(_)
\* the identifiers of the terminal items of a rule, those of the rules of
\* its EBNF items included
RuleTerminals(r) ==
    UNION {IF r[i].type = "terminal"
           THEN {r[i].id}
           ELSE UNION {RuleTerminals(r[i].rules[j]) : j \in 1..Len(r[i].rules)} :
           i \in 1..Len(r)}

\* the identifiers of the terminal items of all the rules of the grammar
GrammarTerminals ==
    UNION {UNION {RuleTerminals(compiler.m_Rules[n][k]) :
                    k \in 1..Len(compiler.m_Rules[n])} :
            n \in DOMAIN compiler.m_Rules}

\* C13: after the compilation of a language every terminal item of every
\* rule, also inside optional, repeating, alternate and guard items, has an
\* identifier that is an entry of the terminal dictionary.
C13_RuleTerminalsInDictionary ==
    lcDone => GrammarTerminals \subseteq 0..(Len(compiler.m_Terminals) - 1)

\* C13: a grammar that names a terminal of another language has been
\* compiled, and a rule holds a terminal with the identifier -1
C13_ForeignTerminalWithoutEntry ==
    /\ lcDone
    /\ (0 - 1) \in GrammarTerminals
    /\ \E b \in 1..Len(m_Language) :
        \E d \in 1..Len(m_Language[b].defs) :
            \E p \in 1..Len(m_Language[b].defs[d].productions) :
                \E i \in 1..Len(m_Language[b].defs[d].productions[p]) :
                    /\ m_Language[b].defs[d].productions[p][i].type = "terminal"
                    /\ m_Language[b].defs[d].productions[p][i].source # ""

\* ---- C14 ----
\* the positions of the lexemes of the lexer blocks
LexemePositions ==
    UNION {{<<b, i>> : i \in 1..Len(m_Language[b].items)} :
            b \in 1..Len(m_Language)}

LexemeName(pos) == m_Language[pos[1]].items[pos[2]]

LexemeType(pos) == m_Language[pos[1]].type

\* the pass of lexerDefinitionOrder that compiles the blocks of a type
PassOf(type) ==
    CHOOSE t \in 1..Len(lexerDefinitionOrder) : lexerDefinitionOrder[t] = type

\* the lexeme at p is compiled before the lexeme at q: in an earlier pass,
\* or in the same pass and earlier in the source
LexemeBefore(p, q) ==
    \/ PassOf(LexemeType(p)) < PassOf(LexemeType(q))
    \/ /\ PassOf(LexemeType(p)) = PassOf(LexemeType(q))
       /\ (p[1] < q[1] \/ (p[1] = q[1] /\ p[2] < q[2]))

\* the first definition of a name
FirstDefinition(name) ==
    CHOOSE p \in LexemePositions :
        /\ LexemeName(p) = name
        /\ \A q \in LexemePositions :
            LexemeName(q) = name /\ q # p => LexemeBefore(p, q)

\* the entry of a name is that of the lexeme at first
EntryIsOf(name, id, first) ==
    /\ Cardinality({i \in 1..Len(compiler.m_Terminals) :
                        compiler.m_Terminals[i] = name}) = 1
    /\ compiler.m_TypeForTerminal[id] = LexemeType(first)
    /\ id \in compiler.m_WeakSymbols
        <=> LexemeType(first) \in {"weak_keywords", "weak_lexer"}
    /\ id \in compiler.m_IgnoredSymbols <=> LexemeType(first) = "ignore"
    /\ compiler.m_TerminalDefinition[id] = first
    /\ \A k \in 1..Len(compiler.m_Lexer) :
        compiler.m_Lexer[k].symbol = id => compiler.m_Lexer[k].pos = first

\* C14: when a lexer block defines a name that is already in the terminal
\* dictionary, DUPLICATE_LEXER_SYMBOL is reported, the second definition is
\* skipped and the compilation continues: the dictionary has one entry for
\* the name, and the unit type, the weak and ignored classification, the
\* definition position and the NFA contribution of the entry are those of
\* the first definition.
C14_DuplicateKeepsFirst ==
    lcDone =>
        \A q \in LexemePositions :
            q # FirstDefinition(LexemeName(q)) =>
                /\ \E k \in 1..Len(compiler.console) :
                    compiler.console[k] =
                        [code |-> "DUPLICATE_LEXER_SYMBOL",
                         name |-> LexemeName(q), pos |-> q]
                /\ \A p \in LexemePositions :
                    symbol_for_name(compiler.m_Terminals, LexemeName(p)) >= 0
                /\ EntryIsOf(LexemeName(q),
                             symbol_for_name(compiler.m_Terminals, LexemeName(q)),
                             FirstDefinition(LexemeName(q)))

\* C14: a name has been defined twice in blocks of different types, and the
\* entry of the name has the unit type and the definition position of the
\* second definition
C14_SecondDefinitionRecorded ==
    /\ lcDone
    /\ \E q \in LexemePositions :
        /\ q # FirstDefinition(LexemeName(q))
        /\ LexemeType(q) # LexemeType(FirstDefinition(LexemeName(q)))
        /\ compiler.m_TerminalDefinition[
                symbol_for_name(compiler.m_Terminals, LexemeName(q))] = q
        /\ compiler.m_TypeForTerminal[
                symbol_for_name(compiler.m_Terminals, LexemeName(q))] = LexemeType(q)

\* ---- C15 ----
\* m_Lexer is in the order in which the identifiers were assigned: one entry
\* for each lexeme and each implicitly defined terminal.  An entry of a
\* lexeme has a position of length two.
IsLexemeEntry(k) == Len(compiler.m_Lexer[k].pos) = 2

RECURSIVE Leaves(_, _)
\* the terminal and nonterminal items of an item with their positions, the
\* nested ones included
Leaves(item, pos) ==
    IF item.type \in EbnfWrappers
    THEN UNION {Leaves(item.children[c], Append(pos, c)) :
                    c \in 1..Len(item.children)}
    ELSE {[item |-> item, pos |-> pos]}

\* the terminal and nonterminal items of the grammar blocks
GrammarLeaves ==
    UNION {UNION {UNION {UNION {
        Leaves(m_Language[b].defs[d].productions[p][i], <<b, d, p, i>>) :
            i \in 1..Len(m_Language[b].defs[d].productions[p])} :
            p \in 1..Len(m_Language[b].defs[d].productions)} :
            d \in 1..Len(m_Language[b].defs)} :
            b \in 1..Len(m_Language)}

\* the terminals of this language that the grammar references and no lexer
\* block defines
UndefinedReferences ==
    {l \in GrammarLeaves :
        /\ l.item.type \in EbnfTerminals
        /\ l.item.source = ""
        /\ \A p \in LexemePositions : LexemeName(p) # l.item.identifier}

\* the name has been defined implicitly exactly once, with an identifier
\* that no lexeme and no other implicit definition has
DefinedOnceFresh(name) ==
    /\ Cardinality({k \in 1..Len(compiler.implicit) :
                        compiler.implicit[k].name = name}) = 1
    /\ \A k \in 1..Len(compiler.implicit) :
        compiler.implicit[k].name = name =>
            /\ symbol_for_name(compiler.m_Terminals, name) = compiler.implicit[k].symbol
            /\ \A p \in DOMAIN compiler.symIds :
                compiler.symIds[p] # compiler.implicit[k].symbol
            /\ \A j \in 1..Len(compiler.implicit) :
                j # k => compiler.implicit[j].symbol # compiler.implicit[k].symbol

\* the number of IMPLICIT_LEXER_SYMBOL warnings reported for a name
ImplicitWarnings(name) ==
    Cardinality({k \in 1..Len(compiler.console) :
                    /\ compiler.console[k].code = "IMPLICIT_LEXER_SYMBOL"
                    /\ compiler.console[k].name = name})

\* C16 (as stated): every terminal the grammar references without a
\* definition in a lexer block, be it an identifier, a quoted string or a
\* character, is implicitly defined exactly once with a fresh identifier,
\* and an IMPLICIT_LEXER_SYMBOL warning is reported for it.
C16_ImplicitAlwaysWarned ==
    lcDone =>
        \A l \in UndefinedReferences :
            /\ DefinedOnceFresh(l.item.identifier)
            /\ ImplicitWarnings(l.item.identifier) = 1

\* C16 (amended): every terminal of the language that the grammar references
\* without a definition in a lexer block is implicitly defined exactly once
\* with a fresh identifier; an IMPLICIT_LEXER_SYMBOL warning is reported once
\* for it when it is referenced by an identifier, and none when it is a
\* quoted string or a character.
C16_ImplicitWarnedForIdentifiers ==
    lcDone =>
        \A l \in UndefinedReferences :
            /\ DefinedOnceFresh(l.item.identifier)
            /\ ImplicitWarnings(l.item.identifier) =
                IF l.item.type = "terminal" THEN 1 ELSE 0

\* C16: a grammar has referenced an undefined identifier and an undefined
\* quoted string; both are defined, only the identifier has a warning
C16_StringDefinedSilently ==
    /\ lcDone
    /\ \E l, m \in UndefinedReferences :
        /\ l.item.type = "terminal"
        /\ m.item.type = "terminal_string"
        /\ ImplicitWarnings(l.item.identifier) = 1
        /\ ImplicitWarnings(m.item.identifier) = 0
        /\ symbol_for_name(compiler.m_Terminals, m.item.identifier) >= 0

\* ---- C17 ----
\* C17: a terminal identifier is in the weak set if and only if its recorded
\* unit type is weak-keywords or weak-lexer, and in the ignored set if and
\* only if its unit type is ignore; every implicitly defined terminal has
\* the unit type weak-keywords and is in the weak set.
C17_SetsMatchUnitType ==
    lcDone =>
        /\ \A id \in 0..(Len(compiler.m_Terminals) - 1) :
            /\ id \in compiler.m_WeakSymbols
                <=> compiler.m_TypeForTerminal[id] \in {"weak_keywords", "weak_lexer"}
            /\ id \in compiler.m_IgnoredSymbols
                <=> compiler.m_TypeForTerminal[id] = "ignore"
        /\ \A k \in 1..Len(compiler.implicit) :
            /\ compiler.m_TypeForTerminal[compiler.implicit[k].symbol] = "weak_keywords"
            /\ compiler.implicit[k].symbol \in compiler.m_WeakSymbols

\* C17: a name defined in a weak block and again in a block that is not
\* weak: its identifier is in the weak set and its unit type is not weak
C17_WeakWithOtherType ==
    /\ lcDone
    /\ \E id \in compiler.m_WeakSymbols :
        /\ compiler.m_TypeForTerminal[id] \notin {"weak_keywords", "weak_lexer"}
        /\ \E q \in LexemePositions :
            /\ q # FirstDefinition(LexemeName(q))
            /\ symbol_for_name(compiler.m_Terminals, LexemeName(q)) = id

\* ---- C18 ----
RECURSIVE Flatten(_)
\* the items of a production with the items of the parenthesized ones in
\* their place
Flatten(items) ==
    IF items = <<>>
    THEN <<>>
    ELSE (IF Head(items).type = "parenthesized"
          THEN Flatten(Head(items).children)
          ELSE <<Head(items)>>) \o Flatten(Tail(items))

RECURSIVE ItemCompiled(_, _)
RECURSIVE RuleCompiled(_, _)

\* the rule item is the EBNF item compiled
ItemCompiled(ri, item) ==
    CASE item.type \in EbnfTerminals ->
            /\ ri.type = "terminal"
            /\ ri.id = symbol_for_name(compiler.m_Terminals, item.identifier)
      [] item.type = "nonterminal" ->
            /\ ri.type = "nonterminal"
            /\ ri.id >= 0
            /\ compiler.m_Nonterminals[ri.id + 1] = item.identifier
      [] item.type = "alternative" ->
            /\ ri.type = "ebnf_alternate"
            /\ Len(ri.rules) = 2
            /\ RuleCompiled(ri.rules[1], <<item.children[1]>>)
            /\ RuleCompiled(ri.rules[2], <<item.children[2]>>)
      [] OTHER ->
            /\ ri.type = WrapperType(item.type)
            /\ Len(ri.rules) = 1
            /\ RuleCompiled(ri.rules[1], <<item.children[1]>>)

\* the rule is the production compiled: item for item
RuleCompiled(r, items) ==
    /\ Len(r) = Len(Flatten(items))
    /\ \A i \in 1..Len(r) : ItemCompiled(r[i], Flatten(items)[i])

\* the rules are the productions compiled, in order
RulesCompiled(rules, productions) ==
    /\ Len(rules) = Len(productions)
    /\ \A k \in 1..Len(rules) : RuleCompiled(rules[k], productions[k])

\* C18: after a replace-form definition the rules of its nonterminal are
\* exactly the productions of that definition, in order, whatever rules the
\* nonterminal had; after an append-form definition they are the rules it
\* had, followed by the productions of the definition.
C18_ReplaceDiscardsAppendKeeps ==
    lcDone =>
        \A k \in 1..Len(compiler.defLog) :
            /\ compiler.defLog[k].definition.type = "replace" =>
                RulesCompiled(compiler.defLog[k].after,
                              compiler.defLog[k].definition.productions)
            /\ compiler.defLog[k].definition.type = "append" =>
                /\ Len(compiler.defLog[k].after) =
                    Len(compiler.defLog[k].before)
                        + Len(compiler.defLog[k].definition.productions)
                /\ SubSeq(compiler.defLog[k].after, 1,
                          Len(compiler.defLog[k].before)) = compiler.defLog[k].before
                /\ RulesCompiled(
                        SubSeq(compiler.defLog[k].after,
                               Len(compiler.defLog[k].before) + 1,
                               Len(compiler.defLog[k].after)),
                        compiler.defLog[k].definition.productions)

\* C18: a replace-form definition of one production has replaced two rules,
\* and an append-form definition has added to existing rules
C18_ReplacedTwoRules ==
    /\ lcDone
    /\ \E k \in 1..Len(compiler.defLog) :
        /\ compiler.defLog[k].definition.type = "replace"
        /\ Len(compiler.defLog[k].before) = 2
        /\ Len(compiler.defLog[k].after) = 1
    /\ \E k \in 1..Len(compiler.defLog) :
        /\ compiler.defLog[k].definition.type = "append"
        /\ Len(compiler.defLog[k].before) > 0
        /\ Len(compiler.defLog[k].after) > Len(compiler.defLog[k].before)

\* ---- C19 ----
\* the positions of the nonterminal definitions of the grammar blocks
DefinitionPositions ==
    UNION {{<<b, d>> : d \in 1..Len(m_Language[b].defs)} :
            b \in 1..Len(m_Language)}

DefinitionAt(pos) == m_Language[pos[1]].defs[pos[2]]

\* an earlier definition defines the nonterminal of the definition at pos
DefinedEarlier(pos) ==
    \E q \in DefinitionPositions :
        /\ q[1] < pos[1] \/ (q[1] = pos[1] /\ q[2] < pos[2])
        /\ DefinitionAt(q).identifier = DefinitionAt(pos).identifier

\* the reports of DUPLICATE_NONTERMINAL_DEFINITION at a position
DuplicateReports(pos) ==
    {k \in 1..Len(compiler.console) :
        /\ compiler.console[k].code = "DUPLICATE_NONTERMINAL_DEFINITION"
        /\ compiler.console[k].pos = pos}

\* C19: DUPLICATE_NONTERMINAL_DEFINITION is reported for a definition if and
\* only if it is of the assignment form and an earlier definition defines
\* its nonterminal; never for a replace-form or append-form definition or
\* for the first definition of a nonterminal.  The compilation continues:
\* every definition is compiled and the productions of a reported one are
\* added to the rules.
C19_DuplicateOnlyOnAssignment ==
    lcDone =>
        /\ \A pos \in DefinitionPositions :
            Cardinality(DuplicateReports(pos)) =
                IF DefinitionAt(pos).type = "assignment" /\ DefinedEarlier(pos)
                THEN 1
                ELSE 0
        /\ \A k \in 1..Len(compiler.console) :
            compiler.console[k].code = "DUPLICATE_NONTERMINAL_DEFINITION" =>
                compiler.console[k].pos \in DefinitionPositions
        /\ Len(compiler.defLog) = Cardinality(DefinitionPositions)
        /\ \A k \in 1..Len(compiler.defLog) :
            DuplicateReports(compiler.defLog[k].pos) # {} =>
                Len(compiler.defLog[k].after) =
                    Len(compiler.defLog[k].before)
                        + Len(compiler.defLog[k].definition.productions)

\* C19: a second assignment-form definition of a nonterminal has been
\* reported, a definition of a nonterminal that was only used before has
\* not, and a definition after the reported one has been compiled
C19_SecondAssignmentReported ==
    /\ lcDone
    /\ \E k \in 1..Len(compiler.defLog) :
        /\ DuplicateReports(compiler.defLog[k].pos) # {}
        /\ k < Len(compiler.defLog)
    /\ \E k \in 1..Len(compiler.defLog) :
        /\ compiler.defLog[k].definition.type = "assignment"
        /\ compiler.defLog[k].nonterminal \in DOMAIN compiler.m_FirstNonterminalUsage
        /\ ~DefinedEarlier(compiler.defLog[k].pos)
        /\ DuplicateReports(compiler.defLog[k].pos) = {}
        /\ k > 1

\* ---- C20 ----
\* the positions of the items that name a nonterminal
References(name) ==
    {l.pos : l \in {m \in GrammarLeaves :
                        m.item.type = "nonterminal" /\ m.item.identifier = name}}

\* the position p comes before the position q in the source
PositionBefore(p, q) ==
    \E i \in 1..Len(p) :
        /\ i <= Len(q)
        /\ p[i] < q[i]
        /\ \A j \in 1..(i - 1) : p[j] = q[j]

\* the position of the first reference to a nonterminal
FirstReference(name) ==
    IF References(name) = {}
    THEN NoPosition
    ELSE CHOOSE p \in References(name) :
            \A q \in References(name) : q # p => PositionBefore(p, q)

\* the reports of UNDEFINED_NONTERMINAL for a name
UndefinedReports(name) ==
    {k \in 1..Len(compiler.console) :
        /\ compiler.console[k].code = "UNDEFINED_NONTERMINAL"
        /\ compiler.console[k].name = name}

BugCodes == {"BUG_UNKNOWN_SYMBOL", "UNKNOWN_EBNF_ITEM_TYPE", "UNK_LEXEME_DEFINITION"}

\* C21: the compilation of a well-formed language block (lexemes and EBNF
\* items of known kinds, items with any number of children) reports no
\* diagnostic of severity bug; BUG_UNKNOWN_SYMBOL is not reported: every
\* terminal left in the unused set has a recorded definition.
C21_NoBugDiagnostics ==
    lcDone =>
        /\ \A k \in 1..Len(compiler.console) :
            compiler.console[k].code \notin BugCodes
        /\ compiler.m_UnusedSymbols \subseteq DOMAIN compiler.m_TerminalDefinition

\* C21: the second child of an optional item names an undefined terminal;
\* the terminal has been defined implicitly, is in no rule, is left in the
\* unused set without a definition, and BUG_UNKNOWN_SYMBOL has been reported
C21_UnknownSymbolReported ==
    /\ lcDone
    /\ \E l \in UndefinedReferences :
        /\ Len(l.pos) = 5
        /\ l.pos[5] = 2
        /\ symbol_for_name(compiler.m_Terminals, l.item.identifier)
            \in compiler.m_UnusedSymbols
        /\ symbol_for_name(compiler.m_Terminals, l.item.identifier)
            \notin GrammarTerminals
        /\ \E k \in 1..Len(compiler.console) :
            /\ compiler.console[k].code = "BUG_UNKNOWN_SYMBOL"
            /\ compiler.console[k].name = l.item.identifier


-----------------------------------------------------------------------------
(* The driver (src/parsetool/main.cpp) *)

\* the severities of a diagnostic, from the least to the most severe
Severities == <<"detail", "info", "warning", "error", "bug">>

\* the value of a severity: its place in the order
SeverityRank(severity) ==
    CHOOSE k \in 1..Len(Severities) : Severities[k] = severity

sev_error == SeverityRank("error")

sev_bug == SeverityRank("bug")

Diagnostic(severity, code) == [severity |-> severity, code |-> code]

\* console::report_error: the diagnostic is recorded; the exit code becomes
\* the highest severity reported so far, once that is an error or worse
report_error(console, diagnostic) ==
    [reported |-> Append(console.reported, diagnostic),
     exit_code |->
        IF /\ SeverityRank(diagnostic.severity) >= sev_error
           /\ SeverityRank(diagnostic.severity) > console.exit_code
        THEN SeverityRank(diagnostic.severity)
        ELSE console.exit_code]

\* a run that carries on whatever was reported
CarryOn(exitCode) == FALSE

\* "Stop if we have an error": if (console.exit_code())
StopIfError(exitCode) == exitCode # 0

\* the stages, in the order main() creates them
Stages == <<"parse", "import", "language build", "lexer", "lr parser", "output">>

\* what a stage's compile() may report: nothing, or one diagnostic of any
\* severity (the language build stage reports undefined nonterminals)
StageReports(stage) ==
    {<<>>} \cup
    {<<Diagnostic(Severities[k],
                  IF stage = "language build" /\ Severities[k] = "error"
                  THEN "UNDEFINED_NONTERMINAL" ELSE "STAGE_DIAGNOSTIC")>> :
        k \in 1..Len(Severities)}

\* the console after a stage reported diags
AfterStage(console, diags) ==
    IF diags = <<>> THEN console ELSE report_error(console, diags[1])

\* main() returns code
Return(console, code) ==
    /\ cons' = console
    /\ returned' = code
    /\ mainPc' = "done"

\* main() goes on to the stage next
Continue(console, next) ==
    /\ cons' = console
    /\ returned' = returned
    /\ mainPc' = next

\* stage.compile(), followed by the test of the exit code
StageThen(stage, console, next) ==
    /\ stagesRun' = Append(stagesRun, stage)
    /\ IF StopIfError(console.exit_code)
       THEN Return(console, console.exit_code)
       ELSE Continue(console, next)

\* the options main() reads and the input file: whether the parser stage
\* gets a definition file from it (item), and the languages it defines
Files == {<<>>, <<"L">>, <<"L", "K">>}

OptionSets ==
    [item : BOOLEAN, file : Files, compileLanguage : {"", "L", "M"},
     startSymbols : {<<>>, <<"S">>},
     targetLanguage : {"", "cplusplus", "java"}, test : {"", "1"}]

InitDriver ==
    /\ options \in OptionSets
    /\ mainPc = "parse"
    /\ stagesRun = <<>>
    /\ cons = NewConsole
    /\ returned = NotReturned

\* main.cpp 37-50: the parser stage; the definition file should exist
ParserStageDone(console) ==
    IF StopIfError(console.exit_code)
    THEN Return(console, console.exit_code)
    ELSE IF ~options.item
         THEN Return(report_error(console, Diagnostic("bug", "BUG_NO_FILE_DATA")),
                     sev_bug)
         ELSE Continue(console, "import")

ParserStage ==
    /\ mainPc = "parse"
    /\ stagesRun' = Append(stagesRun, "parse")
    /\ \E diags \in StageReports("parse") :
         ParserStageDone(AfterStage(cons, diags))
    /\ UNCHANGED <<options, driverRest>>

\* main.cpp 52-59
ImportStage ==
    /\ mainPc = "import"
    /\ \E diags \in StageReports("import") :
         StageThen("import", AfterStage(cons, diags), "language build")
    /\ UNCHANGED <<options, driverRest>>

\* main.cpp 61-68
BuilderStage ==
    /\ mainPc = "language build"
    /\ \E diags \in StageReports("language build") :
         StageThen("language build", AfterStage(cons, diags), "select")
    /\ UNCHANGED <<options, driverRest>>

\* main.cpp 81-97: the language to build when none is specified: the only
\* language of the file
InferredLanguageName(file) == IF Len(file) = 1 THEN file[1] ELSE ""

buildLanguageName ==
    IF options.compileLanguage = ""
    THEN InferredLanguageName(options.file)
    ELSE options.compileLanguage

\* main.cpp 99-105: "Tell the user about this"
InferenceReported(console) ==
    IF options.compileLanguage = "" /\ buildLanguageName # ""
    THEN report_error(console, Diagnostic("info", "INFERRED_LANGUAGE"))
    ELSE console

\* the language is one of the file's
LanguageFound(file, name) == \E k \in 1..Len(file) : file[k] = name

\* main.cpp 108-144, on the console after the inference
LanguageSelected(console) ==
    IF buildLanguageName = ""
    THEN Return(report_error(console, Diagnostic("error", "NO_LANGUAGE_SPECIFIED")),
                sev_error)
    ELSE IF ~LanguageFound(options.file, buildLanguageName)
    THEN Return(report_error(console, Diagnostic("error", "MISSING_TARGET_LANGUAGE")),
                sev_error)
    ELSE IF options.startSymbols = <<>>
    THEN Return(report_error(console, Diagnostic("error", "NO_START_SYMBOLS")),
                sev_error)
    ELSE Continue(console, "lexer")

\* main.cpp 70-144: the language to build and its start symbols
SelectLanguage ==
    /\ mainPc = "select"
    /\ LanguageSelected(InferenceReported(cons))
    /\ UNCHANGED <<options, stagesRun, driverRest>>

\* main.cpp 146-153
LexerStage ==
    /\ mainPc = "lexer"
    /\ \E diags \in StageReports("lexer") :
         StageThen("lexer", AfterStage(cons, diags), "lr parser")
    /\ UNCHANGED <<options, driverRest>>

\* main.cpp 155-162
LrParserStage ==
    /\ mainPc = "lr parser"
    /\ \E diags \in StageReports("lr parser") :
         StageThen("lr parser", AfterStage(cons, diags), "output")
    /\ UNCHANGED <<options, driverRest>>

\* main.cpp 164-172: --test sets the target language, C++ is the default
targetLanguage ==
    IF options.test # "" THEN "test"
    ELSE IF options.targetLanguage = "" THEN "cplusplus"
    ELSE options.targetLanguage

\* main.cpp 183-203: the output stage of the target language is created
\* and compiled, and main() returns the console's exit code
OutputStage ==
    /\ mainPc = "output"
    /\ IF targetLanguage = "cplusplus"
       THEN /\ stagesRun' = Append(stagesRun, "output")
            /\ \E diags \in StageReports("output") :
                 Return(AfterStage(cons, diags),
                        AfterStage(cons, diags).exit_code)
       ELSE /\ stagesRun' = stagesRun
            /\ Return(report_error(cons, Diagnostic("error",
                                         "UNKNOWN_OUTPUT_LANGUAGE_TYPE")),
                      sev_error)
    /\ UNCHANGED <<options, driverRest>>

NextDriver ==
    \/ ParserStage
    \/ ImportStage
    \/ BuilderStage
    \/ SelectLanguage
    \/ LexerStage
    \/ LrParserStage
    \/ OutputStage

\* the driver alone
InitSpecDriver == InitDriver /\ DriverRestIdle

SpecDriver == InitSpecDriver /\ [][NextDriver]_vars

\* ---- C22 ----
IsPrefix(s, t) == Len(s) <= Len(t) /\ \A k \in 1..Len(s) : s[k] = t[k]

\* the ranks of the diagnostics reported so far
ObservedRanks ==
    {SeverityRank(cons.reported[k].severity) : k \in 1..Len(cons.reported)}

ErrorObserved == \E r \in ObservedRanks : r >= sev_error

MaxObserved == CHOOSE r \in ObservedRanks : \A q \in ObservedRanks : q <= r

\* C22: the stages run in the order parse, import, language build, lexer,
\* LR parser, output; once a diagnostic of severity error or worse has been
\* reported no further stage runs, main() has returned, and what it
\* returned is the highest severity reported.
C22_StagesStopAtError ==
    /\ [](/\ IsPrefix(stagesRun, Stages)
          /\ ErrorObserved => returned = MaxObserved)
    /\ [][ErrorObserved => stagesRun' = stagesRun]_vars

\* C22: the language build stage reported an undefined nonterminal; the
\* lexer, LR parser and output stages did not run and main() returned the
\* severity error.
C22_StoppedAtUndefinedNonterminal ==
    /\ stagesRun = <<"parse", "import", "language build">>
    /\ \E k \in 1..Len(cons.reported) :
         cons.reported[k].code = "UNDEFINED_NONTERMINAL"
    /\ mainPc = "done"
    /\ returned = sev_error


-----------------------------------------------------------------------------
(* The lexer stage's passes (src/TameParse/Compiler/lexer_stage.cpp) *)

\* an automaton: the passes that produced it, the weak symbols it is
\* annotated with, and whether it is still allocated
Automaton(passes, weak) == [passes |-> passes, weak |-> weak, live |-> TRUE]

\* new: the automaton is allocated; its address is its place in the heap
Allocated(heap, automaton) == Append(heap, automaton)

\* delete
Deleted(heap, ptr) == [heap EXCEPT ![ptr].live = FALSE]

\* a pass over the automaton at ptr builds a new automaton
PassOver(heap, ptr, pass) ==
    Allocated(heap, Automaton(Append(heap[ptr].passes, pass), heap[ptr].weak))

\* weak_symbols::add_symbols: the DFA is augmented in place
add_symbols(heap, ptr, weakSymSet) == [heap EXCEPT ![ptr].weak = weakSymSet]

LexReport(ls, code) == [ls EXCEPT !.reported = Append(@, code), !.pc = "done"]

\* every option counts as set
OptionSet(option) == FALSE

\* cons().get_option(...).empty()
OptionEmpty(option) == option = ""

\* lexer_stage.cpp 185-205: the sanity check, then the NDFA of the lexer
\* items is created
CreateNdfa(ls, missing) ==
    IF missing THEN LexReport(ls, "BUG_LEXER_BAD_PARAMETERS")
    ELSE [ls EXCEPT !.heap = Allocated(ls.heap, Automaton(<<>>, {})),
                    !.stage0 = Len(ls.heap) + 1,
                    !.pc = "unique symbols"]

\* lexer_stage.cpp 307-320: stage1 = stage0->to_ndfa_with_unique_symbols()
UniqueSymbols(ls, fails) ==
    IF fails
    THEN LexReport([ls EXCEPT !.stage1 = NULL], "BUG_DFA_FAILED_TO_CONVERT")
    ELSE [ls EXCEPT
            !.heap = Deleted(PassOver(ls.heap, ls.stage0, "unique symbols"),
                             ls.stage0),
            !.stage1 = Len(ls.heap) + 1,
            !.stage0 = NULL,
            !.passes = Append(@, "unique symbols"),
            !.pc = "subset construction"]

\* lexer_stage.cpp 322-330: stage2 = stage1->to_dfa(); delete stage1
ToDfa(ls, fails) ==
    IF fails
    THEN LexReport([ls EXCEPT !.heap = Deleted(ls.heap, ls.stage1),
                              !.stage1 = NULL, !.stage2 = NULL],
                   "BUG_DFA_FAILED_TO_COMPILE")
    ELSE [ls EXCEPT
            !.heap = Deleted(PassOver(ls.heap, ls.stage1, "subset construction"),
                             ls.stage1),
            !.stage2 = Len(ls.heap) + 1,
            !.stage1 = NULL,
            !.passes = Append(@, "subset construction"),
            !.pc = "weak symbols"]

\* lexer_stage.cpp 398-418: "Build up the weak symbols set if there are any"
WeakSymbols(ls, weakSymbolIds) ==
    IF Cardinality(weakSymbolIds) > 0
    THEN [ls EXCEPT !.heap = add_symbols(ls.heap, ls.stage2, weakSymbolIds),
                    !.passes = Append(@, "weak symbols"),
                    !.pc = "compact"]
    ELSE [ls EXCEPT !.pc = "compact"]

\* lexer_stage.cpp 420-435: "Compact the resulting DFA"
Compact(ls, disableCompactDfa) ==
    IF OptionEmpty(disableCompactDfa)
    THEN [ls EXCEPT
            !.heap = Deleted(PassOver(ls.heap, ls.stage2, "compact"), ls.stage2),
            !.stage3 = Len(ls.heap) + 1,
            !.stage2 = NULL,
            !.passes = Append(@, "compact"),
            !.pc = "merge"]
    ELSE [ls EXCEPT !.stage3 = ls.stage2, !.stage2 = NULL, !.pc = "merge"]

\* lexer_stage.cpp 437-447: "Eliminate any unnecessary symbol sets"
Merged(ls, disableMergedDfa) ==
    IF OptionEmpty(disableMergedDfa)
    THEN [ls EXCEPT
            !.heap = Deleted(PassOver(ls.heap, ls.stage3, "merge"), ls.stage3),
            !.stage4 = Len(ls.heap) + 1,
            !.stage3 = NULL,
            !.passes = Append(@, "merge")]
    ELSE [ls EXCEPT !.stage4 = ls.stage3, !.stage3 = NULL]

\* lexer_stage.cpp 452: m_Dfa = stage4, and compile() returns
Finished(ls) == [ls EXCEPT !.m_Dfa = ls.stage4, !.pc = "done"]

LexInputs ==
    [missing : BOOLEAN, weakSymbolIds : SUBSET {0, 1},
     disableCompactDfa : {"", "1"}, disableMergedDfa : {"", "1"},
     uniqueFails : BOOLEAN, dfaFails : BOOLEAN]

InitLexerStage ==
    /\ lexInput \in LexInputs
    /\ lexerStage = NewLexerStage

LexCreateNdfa ==
    /\ lexerStage.pc = "start"
    /\ lexerStage' = CreateNdfa(lexerStage, lexInput.missing)
    /\ UNCHANGED <<lexInput, lexerRest>>

LexUniqueSymbols ==
    /\ lexerStage.pc = "unique symbols"
    /\ lexerStage' = UniqueSymbols(lexerStage, lexInput.uniqueFails)
    /\ UNCHANGED <<lexInput, lexerRest>>

LexToDfa ==
    /\ lexerStage.pc = "subset construction"
    /\ lexerStage' = ToDfa(lexerStage, lexInput.dfaFails)
    /\ UNCHANGED <<lexInput, lexerRest>>

LexWeakSymbols ==
    /\ lexerStage.pc = "weak symbols"
    /\ lexerStage' = WeakSymbols(lexerStage, lexInput.weakSymbolIds)
    /\ UNCHANGED <<lexInput, lexerRest>>

LexCompact ==
    /\ lexerStage.pc = "compact"
    /\ lexerStage' = Compact(lexerStage, lexInput.disableCompactDfa)
    /\ UNCHANGED <<lexInput, lexerRest>>

LexMerge ==
    /\ lexerStage.pc = "merge"
    /\ lexerStage' = Finished(Merged(lexerStage, lexInput.disableMergedDfa))
    /\ UNCHANGED <<lexInput, lexerRest>>

NextLexerStage ==
    \/ LexCreateNdfa
    \/ LexUniqueSymbols
    \/ LexToDfa
    \/ LexWeakSymbols
    \/ LexCompact
    \/ LexMerge

\* a lexer stage's compile() alone
InitSpecLexerStage == InitLexerStage /\ LexerRestIdle

SpecLexerStage == InitSpecLexerStage /\ [][NextLexerStage]_vars

\* ---- C23 ----
\* the passes compile() is to apply to the NDFA for the input
PassesFor(in) ==
    <<"unique symbols", "subset construction">>
    \o (IF in.weakSymbolIds # {} THEN <<"weak symbols">> ELSE <<>>)
    \o (IF in.disableCompactDfa = "" THEN <<"compact">> ELSE <<>>)
    \o (IF in.disableMergedDfa = "" THEN <<"merge">> ELSE <<>>)

\* the passes that build a new automaton
BuildingPasses(passes) == SelectSeq(passes, LAMBDA q : q # "weak symbols")

\* C23: the passes run are, in this order, the unique-symbol rewrite, the
\* subset construction, the weak-symbol injection (when the language has
\* weak symbols), the compaction iff disable-compact-dfa is unset and the
\* symbol merging iff disable-merged-dfa is unset; the final DFA is the
\* product of exactly these passes, and with both options set it is the
\* automaton of the subset construction, with its weak-symbol annotations.
C23_PassesInOrder ==
    /\ IsPrefix(lexerStage.passes, PassesFor(lexInput))
    /\ lexerStage.m_Dfa # NULL =>
        /\ lexerStage.passes = PassesFor(lexInput)
        /\ lexerStage.heap[lexerStage.m_Dfa].live
        /\ lexerStage.heap[lexerStage.m_Dfa].passes
             = BuildingPasses(PassesFor(lexInput))
        /\ lexerStage.heap[lexerStage.m_Dfa].weak = lexInput.weakSymbolIds
        /\ (lexInput.disableCompactDfa # "" /\ lexInput.disableMergedDfa # "") =>
             /\ lexerStage.m_Dfa = 3
             /\ lexerStage.heap[3].passes
                  = <<"unique symbols", "subset construction">>

\* C23: both options are set and the language has weak symbols; compile()
\* has finished and the final DFA is the third automaton allocated.
C23_BothPassesDisabled ==
    /\ lexerStage.pc = "done"
    /\ lexerStage.m_Dfa = 3
    /\ lexInput.disableCompactDfa # ""
    /\ lexInput.disableMergedDfa # ""
    /\ lexInput.weakSymbolIds # {}
    /\ Len(lexerStage.heap) = 3

\* ---- C27 ----
LiveAutomata ==
    {a \in 1..Len(lexerStage.heap) : lexerStage.heap[a].live}

\* C27: when compile() has returned every automaton but the final DFA has
\* been released, and at no time more than two automata are allocated (an
\* automaton is released before the one two stages later is built).
C27_IntermediatesReleased ==
    /\ Cardinality(LiveAutomata) <= 2
    /\ lexerStage.pc = "done" => LiveAutomata \subseteq {lexerStage.m_Dfa}

\* C27: the unique-symbol rewrite gave no automaton; compile() has returned
\* and the stage 0 automaton is still allocated.
C27_Stage0Leaked ==
    /\ lexerStage.pc = "done"
    /\ lexInput.uniqueFails
    /\ lexerStage.m_Dfa = NULL
    /\ lexerStage.stage1 = NULL
    /\ lexerStage.stage0 # NULL
    /\ lexerStage.heap[lexerStage.stage0].live
    /\ lexerStage.reported = <<"BUG_DFA_FAILED_TO_CONVERT">>


-----------------------------------------------------------------------------
(* {name} expressions (lexer_stage.cpp, ndfa_lexer_compiler) *)

\* most items a name stands for
MaxItems == 2

\* lexer_item (Data/lexer_item.h): its type and its two case flags
lexer_item(type, case_insensitive, case_sensitive) ==
    [type |-> type, case_insensitive |-> case_insensitive,
     case_sensitive |-> case_sensitive]

\* builder::push: a new scope, which preserves the case options
push(b) ==
    [b EXCEPT !.stack = Append(@, <<b.make_lowercase, b.make_uppercase>>)]

\* builder::pop: the scope is left and its case options are restored
pop(b) ==
    [b EXCEPT !.make_lowercase = b.stack[Len(b.stack)][1],
              !.make_uppercase = b.stack[Len(b.stack)][2],
              !.stack = SubSeq(b.stack, 1, Len(b.stack) - 1)]

\* builder::begin_or
begin_or(b) == [b EXCEPT !.added = Append(@, [or |-> TRUE])]

\* builder::set_case_options
set_case_options(b, lower, upper) ==
    [b EXCEPT !.make_lowercase = lower, !.make_uppercase = upper]

\* add_regex, add_literal: the item is compiled with the case options the
\* builder has now
AddItem(b, item, k) ==
    [b EXCEPT !.added = Append(@, [or |-> FALSE, item |-> k, type |-> item.type,
                                   lower |-> b.make_lowercase,
                                   upper |-> b.make_uppercase])]

\* lexer_stage.cpp 126-133: "Set case sensitivity"
ItemCaseOptions(b, item, isLower, isUpper) ==
    IF item.case_insensitive THEN set_case_options(b, TRUE, TRUE)
    ELSE set_case_options(b, isLower, isUpper)

\* lexer_stage.cpp 121-124: "Or items together"
OrItems(b, first) == IF ~first THEN begin_or(b) ELSE b

\* lexer_stage.cpp 120-148: the loop over the items, from item k
RECURSIVE ExpressionItems(_, _, _, _, _)
ExpressionItems(b, items, k, isLower, isUpper) ==
    IF b.added = b.added /\ k > Len(items) THEN b
    ELSE ExpressionItems(
            AddItem(ItemCaseOptions(OrItems(b, k = 1), items[k], isLower, isUpper),
                    items[k], k),
            items, k + 1, isLower, isUpper)

\* lexer_stage.cpp 111-152: the items are found
ExpressionFound(b, items, isLower, isUpper) ==
    pop(set_case_options(ExpressionItems(push(b), items, 1, isLower, isUpper),
                         isLower, isUpper))

\* ndfa_lexer_compiler::compile_expression
compile_expression(b, items) ==
    IF items = <<>> THEN [builder |-> b, result |-> "standard"]
    ELSE [builder |-> ExpressionFound(b, items, b.make_lowercase, b.make_uppercase),
          result |-> "true"]

\* a lexer item is case insensitive, explicitly case sensitive, or neither
ExpressionItemSet ==
    {lexer_item(t, ci, cs) :
        t \in {"regex", "literal"},
        ci \in BOOLEAN, cs \in BOOLEAN} \ 
    {lexer_item(t, TRUE, TRUE) : t \in {"regex", "literal"}}

RECURSIVE ItemLists(_)
ItemLists(n) ==
    IF n = 0 THEN {<<>>}
    ELSE ItemLists(n - 1) \cup
         {Append(l, i) : l \in {q \in ItemLists(n - 1) : Len(q) = n - 1},
                         i \in ExpressionItemSet}

InitExpression ==
    /\ m_Data \in ItemLists(MaxItems)
    /\ builder \in {NewBuilder(lower, upper) : lower \in BOOLEAN, upper \in BOOLEAN}
    /\ exprResult = "none"

\* the regex compiler meets {name}
CompileExpression ==
    /\ exprResult = "none"
    /\ builder' = compile_expression(builder, m_Data).builder
    /\ exprResult' = compile_expression(builder, m_Data).result
    /\ UNCHANGED <<m_Data, exprRest>>

NextExpression == CompileExpression

InitSpecExpression == InitExpression /\ ExprRestIdle

SpecExpression == InitSpecExpression /\ [][NextExpression]_vars

\* ---- C24 ----
\* what was added for item k of the name
AddedFor(k) ==
    {a \in 1..Len(builder.added) :
        ~builder.added[a].or /\ builder.added[a].item = k}

\* the case options of the scope the reference is in: compile_expression
\* leaves the builder in it
EnclosingOptions == <<builder.make_lowercase, builder.make_uppercase>>

\* the case options item is to be compiled with
OptionsFor(item) ==
    IF item.case_insensitive THEN <<TRUE, TRUE>>
    ELSE IF item.case_sensitive THEN <<FALSE, FALSE>>
    ELSE EnclosingOptions

\* C24: every item a {name} reference stands for is compiled once, with
\* both foldings if it is case insensitive, with no folding if it is
\* explicitly case sensitive, and with the case options of the enclosing
\* scope otherwise.
C24_ItemCaseOptions ==
    exprResult = "true" =>
        \A k \in 1..Len(m_Data) :
            /\ Cardinality(AddedFor(k)) = 1
            /\ \A a \in AddedFor(k) :
                <<builder.added[a].lower, builder.added[a].upper>>
                    = OptionsFor(m_Data[k])

\* C24: an explicitly case sensitive item referenced in a case insensitive
\* scope was compiled with both foldings.
C24_CaseSensitiveItemFolded ==
    /\ exprResult = "true"
    /\ EnclosingOptions = <<TRUE, TRUE>>
    /\ \E k \in 1..Len(m_Data) :
        /\ m_Data[k].case_sensitive
        /\ \E a \in AddedFor(k) :
            builder.added[a].lower /\ builder.added[a].upper


-----------------------------------------------------------------------------
(* More properties of the parser (SpecParser) *)

\* ---- C25 ----
\* C25: a can_reduce call, whatever it answers, leaves the parser's stack
\* and lookahead position as they were; so does the check_guard of a step
\* that performs a guard action: after the step the stack is the one
\* before it, entry by entry, and the lookahead has moved by the step's own
\* next() only.
C25_SimulationsLeaveParser ==
    /\ lastOp = "can_reduce" =>
        /\ m_Stack = prevStack
        /\ m_LookaheadPos = prevPos
    /\ Executed({"guard"}) =>
        /\ m_Stack = prevStack
        /\ m_LookaheadPos \in {prevPos, prevPos + 1}
        /\ pResult = "more" => m_LookaheadPos = prevPos + 1

\* C25: a step performed a guard action whose guard was accepted (its
\* sub-parser shifted the guarded symbols on a stack of its own); the
\* parser's stack is the one before the step.
C25_GuardAcceptedStackKept ==
    /\ Executed({"guard"})
    /\ pResult = "more"
    /\ pGuard # NoState
    /\ m_Stack = prevStack


\* ---- C26 ----
\* the action can_reduce finds first for the symbol of the last call, in
\* the state on top of the stack
FirstFound ==
    Row(tbl, TRUE, Top(prevStack))[find_symbol(tbl, TRUE, Top(prevStack), crSym)]

\* C26: every can_reduce call returns, whatever the tables and the stack.
C26_CanReduceReturns ==
    lastOp = "can_reduce" => crResult \in {"true", "false"}

\* C26: the action found for the symbol is a divert: the loop pushes its
\* target and meets the same action again, turn after turn.
C26_DivertMetAgain ==
    /\ lastOp = "can_reduce"
    /\ crResult = "diverges"
    /\ find_symbol(tbl, TRUE, Top(prevStack), crSym)
         <= Len(Row(tbl, TRUE, Top(prevStack)))
    /\ FirstFound.sym = crSym
    /\ FirstFound.type = "divert"


-----------------------------------------------------------------------------
(* The order of LR actions (src/Lr/lr_action.h) *)

\* enum action_type, in the order of the enumeration
action_type ==
    <<"act_shift", "act_reduce", "act_weakreduce", "act_accept", "act_goto">>

\* the value of an enumerator
TypeValue(type) ==
    (CHOOSE k \in 1..Len(action_type) : action_type[k] = type) - 1

\* lr_action: items and rules are taken by their identifiers
lr_action(type, item, nextState, rule_id) ==
    [m_Item |-> item, m_Type |-> type, m_NextState |-> nextState,
     m_Rule |-> rule_id]

\* lr_action::operator<
lr_action_less(a, compareTo) ==
    IF a.m_Item < compareTo.m_Item THEN TRUE
    ELSE IF TypeValue(a.m_Type) < TypeValue(compareTo.m_Type) THEN TRUE
    ELSE IF a.m_NextState < compareTo.m_NextState THEN TRUE
    ELSE IF a.m_Rule < compareTo.m_Rule THEN TRUE
    ELSE FALSE

LrActions ==
    {lr_action(type, item, nextState, rule_id) :
        type \in {"act_shift", "act_reduce", "act_goto"},
        item \in {0, 1}, nextState \in {0, 1}, rule_id \in {0, 1}}

InitLrAction ==
    /\ lrA \in LrActions
    /\ lrB \in LrActions
    /\ lrC \in LrActions
    /\ lrRes = NoLrResults
    /\ lrDone = FALSE

\* operator< applied to the three actions
CompareLrActions ==
    /\ ~lrDone
    /\ lrDone' = TRUE
    /\ lrRes' = [ab |-> lr_action_less(lrA, lrB), ba |-> lr_action_less(lrB, lrA),
                 bc |-> lr_action_less(lrB, lrC), ac |-> lr_action_less(lrA, lrC),
                 aa |-> lr_action_less(lrA, lrA)]
    /\ UNCHANGED <<lrA, lrB, lrC, lrRest>>

NextLrAction == CompareLrActions

InitSpecLrAction == InitLrAction /\ LrRestIdle

SpecLrAction == InitSpecLrAction /\ [][NextLrAction]_vars

\* ---- C28 ----
\* C28: operator< on LR actions is irreflexive, asymmetric and transitive.
C28_StrictWeakOrder ==
    lrDone =>
        /\ ~lrRes.aa
        /\ ~(lrRes.ab /\ lrRes.ba)
        /\ (lrRes.ab /\ lrRes.bc) => lrRes.ac

\* C28: two actions, the first with the greater item and the smaller type:
\* each is below the other.
C28_EachBelowTheOther ==
    /\ lrDone
    /\ lrA.m_Item > lrB.m_Item
    /\ TypeValue(lrA.m_Type) < TypeValue(lrB.m_Type)
    /\ lrRes.ab
    /\ lrRes.ba


-----------------------------------------------------------------------------
(* More properties of the accept actions (SpecAccept) *)

\* ---- C29 ----
\* C29: for two language accept actions a and b, a == b exactly when
\* neither a < b nor b < a.
C29_EqualIffUnordered ==
    (aMode = "compare" /\ aDone /\ cmpA.lang /\ cmpB.lang) =>
        (cmpRes.eq <=> (~cmpRes.ab /\ ~cmpRes.ba))

\* C29: two language accept actions for the same symbol and unit type, one
\* weak and one not: they are equal, and one is below the other.
C29_EqualButOrdered ==
    /\ aMode = "compare"
    /\ aDone
    /\ cmpA.lang
    /\ cmpB.lang
    /\ cmpA.sym = cmpB.sym
    /\ cmpA.unit = cmpB.unit
    /\ ~cmpA.weak
    /\ cmpB.weak
    /\ cmpRes.eq
    /\ cmpRes.ab


-----------------------------------------------------------------------------
(* The state machine and its two row types (src/Dfa/state_machine.h) *)

\* the symbol sets of the DFA's alphabet
SymbolSets == {0, 1, 2}

\* the symbols run() is called with; the last one is in no symbol set
Symbols == 0..4

\* symbol_translator::set_for_symbol: the set the symbol is in, or
\* symbol_set::null
set_for_symbol(symbol) ==
    CASE symbol \in {0, 1} -> 0
      [] symbol = 2 -> 1
      [] symbol = 3 -> 2
      [] OTHER -> 0 - 1

\* a transition of a state of the DFA
transition(symbolSet, newState) == [symbol_set |-> symbolSet, new_state |-> newState]

\* state_machine_flat_table::fill, the loop over the transitions from
\* number k
RECURSIVE FlatTransitions(_, _, _)
FlatTransitions(m_Row, thisState, k) ==
    IF k > Len(thisState) THEN m_Row
    ELSE FlatTransitions(
            [m_Row EXCEPT ![thisState[k].symbol_set] = thisState[k].new_state],
            thisState, k + 1)

\* state_machine_flat_table::fill(maxSet, thisState)
flat_fill(maxSet, thisState) ==
    FlatTransitions([x \in 0..(maxSet - 1) |-> 0 - 1], thisState, 1)

\* state_machine_flat_table::operator[]
flat_at(m_Row, symbolSet) == m_Row[symbolSet]

\* compare_entries
compare_entries(a, b) == a[1] < b[1]

\* an entry put in its place in a sorted row
EntryInPlace(sorted, e) ==
    SelectSeq(sorted, LAMBDA q : ~compare_entries(e, q)) \o <<e>>
    \o SelectSeq(sorted, LAMBDA q : compare_entries(e, q))

\* a row left in the order of the transitions
unsorted(m_Row) == m_Row

\* std::sort(m_Row + 0, m_Row + m_NumEntries, compare_entries)
RECURSIVE sort_entries(_)
sort_entries(m_Row) ==
    IF m_Row = <<>> THEN <<>>
    ELSE EntryInPlace(sort_entries(SubSeq(m_Row, 1, Len(m_Row) - 1)),
                      m_Row[Len(m_Row)])

\* state_machine_compact_table::fill(maxSet, thisState)
compact_fill(maxSet, thisState) ==
    sort_entries([pos \in 1..Len(thisState) |->
                    <<thisState[pos].symbol_set, thisState[pos].new_state>>])

\* std::lower_bound over count entries from first: a binary search
RECURSIVE entry_lower_bound(_, _, _, _)
entry_lower_bound(m_Row, first, count, value) ==
    IF count <= 0 THEN first
    ELSE IF compare_entries(m_Row[first + (count \div 2)], value)
    THEN entry_lower_bound(m_Row, first + (count \div 2) + 1,
                           count - ((count \div 2) + 1), value)
    ELSE entry_lower_bound(m_Row, first, count \div 2, value)

\* operator[], lowerBound being what the search found
CompactFound(m_Row, lowerBound, symbolSet) ==
    IF lowerBound = Len(m_Row) + 1 THEN 0 - 1
    ELSE IF m_Row[lowerBound][1] # symbolSet THEN 0 - 1
    ELSE m_Row[lowerBound][2]

\* state_machine_compact_table::operator[]
compact_at(m_Row, symbolSet) ==
    CompactFound(m_Row, entry_lower_bound(m_Row, 1, Len(m_Row), <<symbolSet, 0>>),
                 symbolSet)

\* state_machine::state_machine(dfa), with the row type row_type
state_machine(ndfa, row_type) ==
    [row_type |-> row_type,
     m_MaxState |-> Len(ndfa),
     m_MaxSet |-> Cardinality(SymbolSets),
     m_States |-> [stateNum \in 1..Len(ndfa) |->
                    IF row_type = "flat"
                    THEN flat_fill(Cardinality(SymbolSets), ndfa[stateNum])
                    ELSE compact_fill(Cardinality(SymbolSets), ndfa[stateNum])]]

\* run_unsafe_set: state s is row s + 1
run_unsafe_set(machine, s, symbolSet) ==
    IF machine.row_type = "flat" THEN flat_at(machine.m_States[s + 1], symbolSet)
    ELSE compact_at(machine.m_States[s + 1], symbolSet)

\* run_unsafe
run_unsafe(machine, s, symbol) ==
    IF set_for_symbol(symbol) = 0 - 1 THEN 0 - 1
    ELSE run_unsafe_set(machine, s, set_for_symbol(symbol))

\* state_machine::run
run(machine, s, symbol) ==
    IF s < 0 \/ s >= machine.m_MaxState THEN 0 - 1
    ELSE run_unsafe(machine, s, symbol)

\* the states of a DFA of n states: at most one transition for a symbol
\* set, in any order
DfaStates(n) ==
    {q \in SeqsUpTo({transition(set, t) : set \in SymbolSets, t \in 0..(n - 1)},
                    Cardinality(SymbolSets)) :
        \A j, k \in 1..Len(q) : j # k => q[j].symbol_set # q[k].symbol_set}

Dfas ==
    {<<a>> : a \in DfaStates(1)} \cup {<<a, b>> : a, b \in DfaStates(2)}

\* the states run() is called with: those of the DFA, one below and one above
RunStates == (0 - 1)..2

InitMachine ==
    /\ dfa \in Dfas
    /\ runArgs = [state |-> 0, symbol |-> 0]
    /\ runResult = NoRun

\* run(state, symbol) on the state machines built from the DFA with flat
\* and with compact rows
Run ==
    /\ runResult = NoRun
    /\ \E s \in RunStates, symbol \in Symbols :
        /\ runArgs' = [state |-> s, symbol |-> symbol]
        /\ runResult' = [flat |-> run(state_machine(dfa, "flat"), s, symbol),
                         compact |-> run(state_machine(dfa, "compact"), s, symbol)]
    /\ UNCHANGED <<dfa, machineRest>>

NextMachine == Run

InitSpecMachine == InitMachine /\ MachineRestIdle

SpecMachine == InitSpecMachine /\ [][NextMachine]_vars

\* ---- C30 ----
\* the state the DFA's state goes to on the symbol set, -1 if none
TargetOf(thisState, symbolSet) ==
    IF \E k \in 1..Len(thisState) : thisState[k].symbol_set = symbolSet
    THEN thisState[CHOOSE k \in 1..Len(thisState) :
                       thisState[k].symbol_set = symbolSet].new_state
    ELSE 0 - 1

\* C30: for every state of the DFA and every symbol set, the flat row and
\* the compact row give the same state: the target of the transition, or -1
\* when there is none; run() returns the same with either row type: -1 for
\* a state out of range or a symbol in no symbol set, the row's entry
\* otherwise.
C30_RowsInterchangeable ==
    /\ \A s \in 1..Len(dfa) : \A symbolSet \in SymbolSets :
        /\ flat_at(flat_fill(Cardinality(SymbolSets), dfa[s]), symbolSet)
             = TargetOf(dfa[s], symbolSet)
        /\ compact_at(compact_fill(Cardinality(SymbolSets), dfa[s]), symbolSet)
             = TargetOf(dfa[s], symbolSet)
    /\ runResult # NoRun =>
        /\ runResult.flat = runResult.compact
        /\ runResult.flat =
             IF runArgs.state < 0 \/ runArgs.state >= Len(dfa) THEN 0 - 1
             ELSE IF set_for_symbol(runArgs.symbol) = 0 - 1 THEN 0 - 1
             ELSE TargetOf(dfa[runArgs.state + 1], set_for_symbol(runArgs.symbol))

\* C30: run() on a state whose transitions are listed in descending order of
\* symbol set, for a symbol of its lowest set; both row types give the
\* target.
C30_RunOnUnsortedState ==
    /\ runResult # NoRun
    /\ runArgs.state = 1
    /\ Len(dfa) = 2
    /\ Len(dfa[2]) = 3
    /\ dfa[2][1].symbol_set = 2
    /\ dfa[2][2].symbol_set = 1
    /\ dfa[2][3].symbol_set = 0
    /\ set_for_symbol(runArgs.symbol) = 0
    /\ runResult.flat = dfa[2][3].new_state
    /\ runResult.compact = dfa[2][3].new_state

=============================================================================
